---- MODULE Spec2Model ----
(***************************************************************************)
(* Model of reports/summary.py of android-ebpf-monitor: the batch pipeline *)
(* main() runs over a session's events.jsonl (load_events,                 *)
(* sort_events_by_time, compute_analytics with its aggregation loop,       *)
(* window_rate, the latency deep-dive, compute_binder_analytics,           *)
(* compute_process_tree, compute_resource_map) and compute_event_rate.     *)
(*                                                                         *)
(* JSON values are tagged records [t, n, s]; a Python dict or Counter is a *)
(* sequence of [k, v] entries in insertion order (Python dicts iterate in  *)
(* insertion order, and that order reaches the Summary).                   *)
(***************************************************************************)
EXTENDS Integers, Sequences, FiniteSets, TLC

\* ------------------------------------------------------------------ bounds
\* Longest input file (in lines) the pipeline specifications draw.
MaxLines == 3
\* Longest sorted array the percentile specification draws, and its largest value.
MaxArr == 4
MaxVal == 3

\* ------------------------------------------------------------- JSON values
Absent == [t |-> "absent", n |-> 0, s |-> ""]
Null == [t |-> "null", n |-> 0, s |-> ""]
JInt(i) == [t |-> "int", n |-> i, s |-> ""]
JStr(x) == [t |-> "str", n |-> 0, s |-> x]
JTrue == [t |-> "bool", n |-> 1, s |-> ""]
\* The float i + 0.5 (a JSON number with a fractional part).
JHalf(i) == [t |-> "float", n |-> i, s |-> ""]
\* The float json.loads reads from the literal Infinity.
JInf == [t |-> "inf", n |-> 0, s |-> ""]

\* isinstance(v, str) and v
IsNonEmptyStr(v) == v.t = "str" /\ v.s # ""
\* isinstance(v, int): Python's bool is a subclass of int
IsInt(v) == v.t \in {"int", "bool"}
\* isinstance(v, (int, float))
IsNumber(v) == v.t \in {"int", "bool", "float", "inf"}
\* bool(v): the truth value Python gives a JSON value
Truthy(v) ==
  CASE v.t \in {"absent", "null"} -> FALSE
    [] v.t \in {"int", "bool"} -> v.n # 0
    [] v.t = "float" -> TRUE
    [] v.t = "str" -> v.s # ""
    [] OTHER -> TRUE

\* An optional integer: Python's None or an int.
None == [some |-> FALSE, v |-> 0]
Some(i) == [some |-> TRUE, v |-> i]

\* The decimal strings of the model and the integer int() reads from each; int()
\* of any other string raises ValueError.
DecimalStrings == {"0", "7", "-5"}
ParseDecimal(s) == CASE s = "0" -> 0 [] s = "7" -> 7 [] s = "-5" -> 0 - 5 [] OTHER -> 0

\* int(v) under `except (ValueError, TypeError)`: None where int() raises one
\* of the two. int() of a float truncates towards zero. int() of Infinity raises
\* OverflowError, which this handler does not catch: PyInt is not defined there.
PyInt(v) ==
  CASE v.t \in {"int", "bool"} -> Some(v.n)
    [] v.t = "float" -> Some(IF v.n >= 0 THEN v.n ELSE v.n + 1)
    [] v.t = "str" -> IF v.s \in DecimalStrings THEN Some(ParseDecimal(v.s)) ELSE None
    [] v.t \in {"absent", "null"} -> None
\* int(v) under `except Exception`: None where int() raises anything.
PyIntAny(v) == IF v.t = "inf" THEN None ELSE PyInt(v)

\* ------------------------------------------------------------------ events
\* data: kind "absent" (no key), "dict" (a JSON object), "other" (null, a string,
\* a number: anything that is not a dict).
NoData ==
  [kind |-> "absent", ret |-> Absent, lat_us |-> Absent, debug_id |-> Absent,
   reply |-> Absent, to_pid |-> Absent, oneway |-> Absent, code |-> Absent,
   data_size |-> Absent]
EmptyData == [NoData EXCEPT !.kind = "dict"]
NonDictData == [NoData EXCEPT !.kind = "other"]

EvBase ==
  [type |-> Absent, event |-> Absent, comm |-> Absent, pid |-> Absent,
   ppid |-> Absent, ts_ns |-> Absent, decoded |-> Absent, data |-> NoData]

\* A line of events.jsonl: whitespace only ("blank"), text json.loads rejects
\* ("garbage"), a JSON scalar or array ("scalar", "array"), or a JSON object.
BlankLine == [kind |-> "blank", obj |-> EvBase]
GarbageLine == [kind |-> "garbage", obj |-> EvBase]
ScalarLine == [kind |-> "scalar", obj |-> EvBase]
ArrayLine == [kind |-> "array", obj |-> EvBase]
ObjLine(ev) == [kind |-> "object", obj |-> ev]

\* ------------------------------------------------------ dicts and Counters
DKeys(d) == {d[i].k : i \in DOMAIN d}
DHas(d, k) == k \in DKeys(d)
DIdx(d, k) == CHOOSE i \in DOMAIN d : d[i].k = k
DGet(d, k, dflt) == IF DHas(d, k) THEN d[DIdx(d, k)].v ELSE dflt
\* d[k] = v: a new key goes last, an old key keeps its place
DPut(d, k, v) ==
  IF DHas(d, k) THEN [d EXCEPT ![DIdx(d, k)].v = v] ELSE Append(d, [k |-> k, v |-> v])
\* counter[k] += 1
CInc(d, k) == DPut(d, k, DGet(d, k, 0) + 1)

\* Tuple comparison of two-element integer keys: (a1, a2) <= (b1, b2)
PairLeq(a, b) == a[1] < b[1] \/ (a[1] = b[1] /\ a[2] <= b[2])
\* sorted(s, key=...) with keys[i] the key of s[i]: stable, ascending; an element
\* goes after every element whose key is not greater.
StableSort(s, keys) ==
  LET ins(acc, x) ==
        LET n == Cardinality({j \in DOMAIN acc : PairLeq(keys[acc[j]], keys[x])})
        IN  SubSeq(acc, 1, n) \o <<x>> \o SubSeq(acc, n + 1, Len(acc))
      f[i \in 0..Len(s)] == IF i = 0 THEN <<>> ELSE ins(f[i - 1], i)
  IN  [j \in DOMAIN s |-> s[f[Len(s)][j]]]
\* sorted(s, key=..., reverse=True): descending, equal keys keeping their order
StableSortDesc(s, keys) ==
  StableSort(s, [i \in DOMAIN keys |-> <<0 - keys[i][1], 0 - keys[i][2]>>])
\* s[:n]
Take(s, n) == SubSeq(s, 1, IF Len(s) < n THEN Len(s) ELSE n)
\* Counter.most_common(n): by count descending, first-inserted first among equals
MostCommon(d, n) == Take(StableSortDesc(d, [i \in DOMAIN d |-> <<d[i].v, 0>>]), n)
\* sum(s)
RECURSIVE SumSeq(_)
SumSeq(s) == IF s = <<>> THEN 0 ELSE s[1] + SumSeq(Tail(s))

\* ------------------------------------------------------------ load_events
\* json.loads(line): raises JSONDecodeError on text that is not JSON; otherwise
\* the value, which is a dict only for a JSON object.
JsonLoads(line) ==
  [ok |-> line.kind \in {"scalar", "array", "object"}, obj |-> line.obj]
\* (mutant) the isinstance check left out: every value json.loads returns is kept
IsDictValue_AnyValue(line) == line.kind \in {"scalar", "array", "object"}
\* isinstance(obj, dict), on the value json.loads returned for the line
IsDictValue(line) == line.kind = "object"
\* One iteration of `for line in f`: strip, skip a blank line, parse, keep dicts.
LoadLine(evs, line) ==
  IF line.kind = "blank" THEN evs
  ELSE IF ~JsonLoads(line).ok THEN evs
  ELSE IF IsDictValue(line) THEN Append(evs, JsonLoads(line).obj)
  ELSE evs

\* ------------------------------------------------------------ time helpers
get_ts_ns(ev) ==
  IF ev.ts_ns.t \in {"absent", "null"} THEN None ELSE PyInt(ev.ts_ns)

\* (mutant) key=lambda e: get_ts_ns(e) or 0: an event without ts_ns sorts as 0
TsKey_MissingAsZero(ev) ==
  LET k == get_ts_ns(ev)
  IN  <<0, IF k.some THEN k.v ELSE 0>>
\* key=lambda e: (get_ts_ns(e) is None, get_ts_ns(e) or 0), compared as tuples
TsKey(ev) ==
  LET k == get_ts_ns(ev)
  IN  <<IF k.some THEN 0 ELSE 1, IF k.some THEN k.v ELSE 0>>

sort_events_by_time(evs) ==
  IF evs = <<>> THEN evs
  ELSE IF ~(\E i \in DOMAIN evs : get_ts_ns(evs[i]).some) THEN evs
  ELSE StableSort(evs, [i \in DOMAIN evs |-> TsKey(evs[i])])

\* ------------------------------------------------- aggregation (376 - 422)
\* ev.get("data", {})
EvData(ev) == IF ev.data.kind = "absent" THEN EmptyData ELSE ev.data
\* t == "syscall"
IsSyscall(ev) == ev.type.t = "str" /\ ev.type.s = "syscall"
\* (mutant) ret <= 0 in place of ret < 0
IsSyscallError_ZeroCounts(ev) ==
  /\ EvData(ev).kind = "dict"
  /\ IsInt(EvData(ev).ret)
  /\ IsNonEmptyStr(ev.event)
  /\ EvData(ev).ret.n <= 0
\* isinstance(ret, int) and isinstance(e, str) and e and ret < 0, data being a dict
IsSyscallError(ev) ==
  /\ EvData(ev).kind = "dict"
  /\ IsInt(EvData(ev).ret)
  /\ IsNonEmptyStr(ev.event)
  /\ EvData(ev).ret.n < 0
\* isinstance(lat, (int, float)), data being a dict
HasLatency(ev) == EvData(ev).kind = "dict" /\ IsNumber(EvData(ev).lat_us)
\* float(lat), kept as twice its value (the floats of the model are halves);
\* float("inf") is kept as 2^20, above twice every finite latency of the inputs.
Twice(v) ==
  CASE v.t = "float" -> 2 * v.n + 1
    [] v.t = "inf" -> 2 ^ 20
    [] OTHER -> 2 * v.n

AggInit ==
  [type_counter |-> <<>>, event_counter |-> <<>>, proc_total |-> <<>>,
   proc_by_type |-> <<>>, proc_by_event |-> <<>>, syscall_counts |-> <<>>,
   syscall_errors |-> <<>>, syscall_lat_by_name |-> <<>>, all_lat_us |-> <<>>,
   timeline_by_pid |-> <<>>, pid_to_comm |-> <<>>, syscall_lat_events |-> <<>>]

\* The body of `for ev in events_sorted` in compute_analytics.
AggStep(a, ev) ==
  LET t == ev.type
      e == ev.event
      comm == ev.comm
      pid == ev.pid
      tOk == IsNonEmptyStr(t)
      eOk == IsNonEmptyStr(e)
      cOk == IsNonEmptyStr(comm)
      sys == IsSyscall(ev)
      lat == HasLatency(ev)
      a1 == [a EXCEPT
               !.type_counter = IF tOk THEN CInc(@, t.s) ELSE @,
               !.event_counter = IF eOk THEN CInc(@, e.s) ELSE @,
               !.proc_total = IF cOk THEN CInc(@, comm.s) ELSE @,
               !.proc_by_type =
                 IF cOk /\ tOk THEN DPut(@, comm.s, CInc(DGet(@, comm.s, <<>>), t.s)) ELSE @,
               !.proc_by_event =
                 IF cOk /\ eOk THEN DPut(@, comm.s, CInc(DGet(@, comm.s, <<>>), e.s)) ELSE @,
               !.pid_to_comm = IF IsInt(pid) /\ cOk THEN DPut(@, pid.n, comm.s) ELSE @,
               !.timeline_by_pid =
                 IF IsInt(pid) /\ eOk
                 THEN DPut(@, pid.n,
                           Append(DGet(@, pid.n, <<>>),
                                  [t |-> IF t.t = "str" THEN t.s ELSE "", e |-> e.s]))
                 ELSE @]
  IN  IF ~sys THEN a1
      ELSE [a1 EXCEPT
              !.syscall_counts = IF eOk THEN CInc(@, e.s) ELSE @,
              !.syscall_errors = IF IsSyscallError(ev) THEN CInc(@, e.s) ELSE @,
              !.all_lat_us = IF lat THEN Append(@, Twice(EvData(ev).lat_us)) ELSE @,
              !.syscall_lat_by_name =
                IF lat /\ eOk
                THEN DPut(@, e.s, Append(DGet(@, e.s, <<>>), Twice(EvData(ev).lat_us)))
                ELSE @,
              !.syscall_lat_events = IF lat THEN Append(@, ev) ELSE @]

\* ------------------------------------------------------ stats (139 - 144)
NaN == [nan |-> TRUE, v |-> 0]
Num(x) == [nan |-> FALSE, v |-> x]
Max2(a, b) == IF a >= b THEN a ELSE b
Min2(a, b) == IF a <= b THEN a ELSE b
\* (mutant) int(p * n)
PercentileIndex_NoMinusOne(n, pct) == (pct * n) \div 100
\* k = int(p * (n - 1)), p being pct / 100
PercentileIndex(n, pct) == (pct * (n - 1)) \div 100
percentile(sorted_vals, pct) ==
  IF sorted_vals = <<>> THEN NaN
  ELSE LET n == Len(sorted_vals)
           k == PercentileIndex(n, pct)
       IN  Num(sorted_vals[Max2(0, Min2(k, n - 1)) + 1])

\* ------------------------------------------- error rates, latency (424 - 452)
\* (mutant) errors over successes in place of errors over calls
ErrorRate_OverSuccesses(err, cnt) == [num |-> err, den |-> cnt - err]
\* (err / cnt) if cnt else 0.0, as the fraction num / den
ErrorRate(err, cnt) ==
  IF cnt # 0 THEN [num |-> err, den |-> cnt] ELSE [num |-> 0, den |-> 1]
syscall_error_rates(a) ==
  [i \in DOMAIN a.syscall_counts |->
     [k |-> a.syscall_counts[i].k,
      v |-> ErrorRate(DGet(a.syscall_errors, a.syscall_counts[i].k, 0),
                      a.syscall_counts[i].v)]]
SortNums(s) == StableSort(s, [i \in DOMAIN s |-> <<s[i], 0>>])
NoLatency ==
  [present |-> FALSE, min_us |-> 0, p50_us |-> 0, p95_us |-> 0, p99_us |-> 0,
   max_us |-> 0, n |-> 0]
\* latency_summary: {} when no latency was seen
latency_summary(a) ==
  IF a.all_lat_us = <<>> THEN NoLatency
  ELSE LET s == SortNums(a.all_lat_us)
       IN  [present |-> TRUE, min_us |-> s[1], p50_us |-> percentile(s, 50).v,
            p95_us |-> percentile(s, 95).v, p99_us |-> percentile(s, 99).v,
            max_us |-> s[Len(s)], n |-> Len(s)]
latency_by_syscall(a) ==
  [i \in DOMAIN a.syscall_lat_by_name |->
     LET s == SortNums(a.syscall_lat_by_name[i].v)
     IN  [k |-> a.syscall_lat_by_name[i].k,
          v |-> [p50_us |-> percentile(s, 50).v, p95_us |-> percentile(s, 95).v,
                 p99_us |-> percentile(s, 99).v, max_us |-> s[Len(s)], n |-> Len(s)]]]

\* --------------------------------------------------- window_rate (94 - 123)
\* win_ns = int(window_s * 1e9) for the window_s = 1.0 compute_analytics passes
WinNs == 1000000000
\* [get_ts_ns(e) for e in events], the None entries dropped
TsList(evs) ==
  LET f[i \in 0..Len(evs)] ==
        IF i = 0 THEN <<>>
        ELSE IF get_ts_ns(evs[i]).some THEN Append(f[i - 1], get_ts_ns(evs[i]).v)
        ELSE f[i - 1]
  IN  f[Len(evs)]
MinOf(s) == CHOOSE x \in {s[i] : i \in DOMAIN s} : \A j \in DOMAIN s : x <= s[j]
\* buckets[(t - ts0) // win_ns] += 1 for t in ts_list
Buckets(ts_list) ==
  LET ts0 == MinOf(ts_list)
      f[i \in 0..Len(ts_list)] ==
        IF i = 0 THEN <<>> ELSE CInc(f[i - 1], (ts_list[i] - ts0) \div WinNs)
  IN  f[Len(ts_list)]
\* (mutant) the last entry with the highest count
PeakEntry_LastMax(buckets) ==
  buckets[CHOOSE i \in DOMAIN buckets :
            /\ \A j \in DOMAIN buckets : buckets[j].v <= buckets[i].v
            /\ \A j \in (i + 1)..Len(buckets) : buckets[j].v < buckets[i].v]
\* max(buckets.items(), key=lambda kv: kv[1]): the first entry with the highest count
PeakEntry(buckets) ==
  buckets[CHOOSE i \in DOMAIN buckets :
            /\ \A j \in DOMAIN buckets : buckets[j].v <= buckets[i].v
            /\ \A j \in 1..(i - 1) : buckets[j].v < buckets[i].v]
RateUnavailable ==
  [available |-> FALSE, peak_bucket |-> 0, peak_count |-> 0,
   avg_rate |-> [num |-> 0, den |-> 1], total_windows |-> 0]
window_rate(evs) ==
  LET ts_list == TsList(evs)
  IN  IF Len(ts_list) < 2 THEN RateUnavailable
      ELSE LET buckets == Buckets(ts_list)
               peak == PeakEntry(buckets)
           IN  [available |-> TRUE, peak_bucket |-> peak.k, peak_count |-> peak.v,
                avg_rate |->
                  [num |-> SumSeq([i \in DOMAIN buckets |-> buckets[i].v]),
                   den |-> Max2(Len(buckets), 1)],
                total_windows |-> Len(buckets)]
\* time_analytics (455 - 458)
TimeAnalytics(evs) ==
  [has_ts_ns |-> \E i \in DOMAIN evs : get_ts_ns(evs[i]).some,
   rate_1s |-> window_rate(evs)]

\* ------------------------------------------- latency deep-dive (461 - 539)
TopSlowest == 20
TopP95 == 15
TopErrnoGlobal == 10
TopErrnoPerSyscall == 5
\* errno_from_ret (126 - 133)
errno_from_ret(ret) ==
  LET r == PyInt(ret)
  IN  IF r.some /\ r.v < 0 THEN Some(0 - r.v) ELSE None
\* _lat_us(ev): int(lat_us), or -1 where int() raises
LatUs(ev) ==
  LET r == PyIntAny(EvData(ev).lat_us) IN IF r.some THEN r.v ELSE 0 - 1
SlowestEntry(ev) ==
  [ts_ns |-> get_ts_ns(ev), comm |-> ev.comm, pid |-> ev.pid, event |-> ev.event,
   ret |-> EvData(ev).ret, lat_us |-> EvData(ev).lat_us]
\* sorted(syscall_lat_events, key=_lat_us, reverse=True)[:topN]
top_slowest(lat_events) ==
  LET slowest == Take(StableSortDesc(lat_events,
                        [i \in DOMAIN lat_events |-> <<LatUs(lat_events[i]), 0>>]),
                      TopSlowest)
  IN  [i \in DOMAIN slowest |-> SlowestEntry(slowest[i])]
\* by_comm[comm].append(int(lat_us)) for the events with a usable comm:
\* by_comm[comm] makes the comm's (empty) list before int() is evaluated, so a
\* comm whose int() raises keeps the list it had, an empty one if it had none.
LatByComm(lat_events) ==
  LET f[i \in 0..Len(lat_events)] ==
        IF i = 0 THEN <<>>
        ELSE LET ev == lat_events[i]
                 r == PyIntAny(EvData(ev).lat_us)
                 by_comm == f[i - 1]
                 vals == DGet(by_comm, ev.comm.s, <<>>)
             IN  IF IsNonEmptyStr(ev.comm)
                 THEN DPut(by_comm, ev.comm.s, IF r.some THEN Append(vals, r.v) ELSE vals)
                 ELSE by_comm
  IN  f[Len(lat_events)]
\* _p(vals, p): None for no values, else sorted(vals)[int(p * (len - 1))]
PctOfVals(vals, pct) ==
  IF vals = <<>> THEN None ELSE Some(SortNums(vals)[PercentileIndex(Len(vals), pct) + 1])
\* key=lambda x: (x["p95_us"] is None, x["p95_us"] or -1), reverse=True
P95Key(entry) ==
  <<IF entry.p95_us.some THEN 0 ELSE 1,
    IF entry.p95_us.some /\ entry.p95_us.v # 0 THEN entry.p95_us.v ELSE 0 - 1>>
p95_by_comm_top(lat_events) ==
  LET by_comm == LatByComm(lat_events)
      rows == [i \in DOMAIN by_comm |->
                 [comm |-> by_comm[i].k, n |-> Len(by_comm[i].v),
                  p50_us |-> PctOfVals(by_comm[i].v, 50),
                  p95_us |-> PctOfVals(by_comm[i].v, 95),
                  p99_us |-> PctOfVals(by_comm[i].v, 99),
                  max_us |-> IF by_comm[i].v = <<>> THEN None
                             ELSE Some(SortNums(by_comm[i].v)[Len(by_comm[i].v)])]]
  IN  Take(StableSortDesc(rows, [i \in DOMAIN rows |-> P95Key(rows[i])]), TopP95)
\* sc = ev.get("event") or "unknown"
ErrnoSyscallName(ev) == IF Truthy(ev.event) THEN ev.event.s ELSE "unknown"
ErrnoGlobal(lat_events) ==
  LET f[i \in 0..Len(lat_events)] ==
        IF i = 0 THEN <<>>
        ELSE LET eno == errno_from_ret(EvData(lat_events[i]).ret)
             IN  IF eno.some THEN CInc(f[i - 1], eno.v) ELSE f[i - 1]
  IN  f[Len(lat_events)]
ErrnoBySyscall(lat_events) ==
  LET f[i \in 0..Len(lat_events)] ==
        IF i = 0 THEN <<>>
        ELSE LET eno == errno_from_ret(EvData(lat_events[i]).ret)
                 sc == ErrnoSyscallName(lat_events[i])
                 by_syscall == f[i - 1]
             IN  IF eno.some THEN DPut(by_syscall, sc, CInc(DGet(by_syscall, sc, <<>>), eno.v))
                 ELSE by_syscall
  IN  f[Len(lat_events)]
NoDeep ==
  [present |-> FALSE, top_slowest |-> <<>>, p95_by_comm_top |-> <<>>,
   errno_global_top |-> <<>>, errno_by_syscall_top |-> <<>>]
\* syscalls_latency_deep: {} when syscall_lat_events is empty
LatencyDeepDive(lat_events) ==
  IF lat_events = <<>> THEN NoDeep
  ELSE [present |-> TRUE,
        top_slowest |-> top_slowest(lat_events),
        p95_by_comm_top |-> p95_by_comm_top(lat_events),
        errno_global_top |-> MostCommon(ErrnoGlobal(lat_events), TopErrnoGlobal),
        errno_by_syscall_top |->
          LET d == ErrnoBySyscall(lat_events)
          IN  [i \in DOMAIN d |->
                 [k |-> d[i].k, v |-> MostCommon(d[i].v, TopErrnoPerSyscall)]]]

\* --------------------------------------- compute_binder_analytics (171 - 266)
TopCodes == 10
TopEdgeCodes == 5
\* A dict key: Python keys True and 1 are one key.
KeyOf(v) == IF IsInt(v) THEN JInt(v.n) ELSE v
\* v is None: a missing key or a JSON null
IsNone(v) == v.t \in {"absent", "null"}
\* str(v) inside an f-string, for a value that is a string, a number or None
PyStr(v) ==
  CASE v.t = "str" -> v.s
    [] v.t = "int" -> ToString(v.n)
    [] v.t \in {"absent", "null"} -> "None"
EventNameIs(ev, name) == ev.event.t = "str" /\ ev.event.s = name

BinderInit ==
  [alloc_by_id |-> <<>>, received_by_id |-> <<>>, transactions |-> 0,
   ipc_graph |-> <<>>, code_usage |-> <<>>, oneway_count |-> 0, sync_count |-> 0,
   total_bytes |-> 0, err |-> FALSE]

\* (mutant) setdefault in place of assignment: the first event seen is kept
IndexPut_KeepFirst(d, debug_id, ev) ==
  IF DHas(d, KeyOf(debug_id)) THEN d ELSE DPut(d, KeyOf(debug_id), ev)
\* alloc_by_id[debug_id] = ev: the last event seen with a debug_id is the one kept
IndexPut(d, debug_id, ev) == DPut(d, KeyOf(debug_id), ev)
\* The body of the first `for ev in events` (180 - 189). data.get raises
\* AttributeError when data is present and not a dict.
BinderIndexStep(b, ev) ==
  LET data == EvData(ev)
  IN  IF data.kind # "dict" THEN [b EXCEPT !.err = TRUE]
      ELSE IF IsNone(data.debug_id) THEN b
      ELSE IF EventNameIs(ev, "binder_transaction_alloc_buf")
      THEN [b EXCEPT !.alloc_by_id = IndexPut(@, data.debug_id, ev)]
      ELSE IF EventNameIs(ev, "binder_transaction_received")
      THEN [b EXCEPT !.received_by_id = IndexPut(@, data.debug_id, ev)]
      ELSE b

\* (mutant) the reply check left out
IsReply_Never(ev) == FALSE
\* ev.get("data", {}).get("reply") == 1
IsReply(ev) == IsInt(EvData(ev).reply) /\ EvData(ev).reply.n = 1
\* alloc.get("data", {}).get("data_size", 0) for alloc = alloc_by_id.get(debug_id, {})
AllocDataSize(b, debug_id) ==
  IF DHas(b.alloc_by_id, KeyOf(debug_id))
  THEN LET v == EvData(DGet(b.alloc_by_id, KeyOf(debug_id), EvBase)).data_size
       IN  IF v.t = "absent" THEN JInt(0) ELSE v
  ELSE JInt(0)
\* `total_bytes += data_size or 0` raises TypeError for a non-empty string
AddRaises(data_size) == data_size.t = "str" /\ data_size.s # ""
\* data_size or 0, for the values that can be added to an int
SizeOrZero(data_size) ==
  CASE data_size.t \in {"int", "bool"} -> data_size.n
    [] data_size.t \in {"absent", "null"} -> 0
    [] data_size.t = "str" /\ data_size.s = "" -> 0
\* (mutant) the join with received_by_id left out: the name is made from to_pid
ReceiverComm_NoJoin(b, debug_id, to_pid) ==
  IF Truthy(to_pid) THEN "pid:" \o PyStr(to_pid) ELSE "unknown"
\* recv.get("comm", f"pid:{to_pid}" if to_pid else "unknown")
ReceiverComm(b, debug_id, to_pid) ==
  LET recv == DGet(b.received_by_id, KeyOf(debug_id), EvBase)
  IN  IF DHas(b.received_by_id, KeyOf(debug_id)) /\ recv.comm.t # "absent"
      THEN PyStr(recv.comm)
      ELSE IF Truthy(to_pid) THEN "pid:" \o PyStr(to_pid) ELSE "unknown"
\* ev.get("comm", "unknown")
SenderComm(ev) == IF ev.comm.t = "absent" THEN "unknown" ELSE PyStr(ev.comm)
NewEdge == [count |-> 0, total_bytes |-> 0, codes |-> <<>>]
\* The body of the second `for ev in events` (199 - 248).
BinderTxStep(b, ev) ==
  IF ~EventNameIs(ev, "binder_transaction") THEN b
  ELSE IF IsReply(ev) THEN b
  ELSE LET data == EvData(ev)
           data_size == AllocDataSize(b, data.debug_id)
           edge == <<SenderComm(ev), ReceiverComm(b, data.debug_id, data.to_pid)>>
           old == DGet(b.ipc_graph, edge, NewEdge)
           hasCode == ~IsNone(data.code)
       IN  IF AddRaises(data_size) THEN [b EXCEPT !.err = TRUE]
           ELSE [b EXCEPT
                   !.total_bytes = @ + SizeOrZero(data_size),
                   !.oneway_count = IF Truthy(data.oneway) THEN @ + 1 ELSE @,
                   !.sync_count = IF Truthy(data.oneway) THEN @ ELSE @ + 1,
                   !.code_usage = IF hasCode THEN CInc(@, KeyOf(data.code)) ELSE @,
                   !.ipc_graph =
                     DPut(@, edge,
                          [count |-> old.count + 1,
                           total_bytes |-> old.total_bytes + SizeOrZero(data_size),
                           codes |-> IF hasCode THEN CInc(old.codes, KeyOf(data.code))
                                     ELSE old.codes]),
                   !.transactions = @ + 1]

\* f"{src} → {dst}"
EdgeLabel(edge) == edge[1] \o " → " \o edge[2]
\* ipc_graph_out (250 - 257): edges by count descending, keyed by their label
IpcGraphOut(ipc_graph) ==
  LET sorted == StableSortDesc(ipc_graph,
                               [i \in DOMAIN ipc_graph |-> <<ipc_graph[i].v.count, 0>>])
      f[i \in 0..Len(sorted)] ==
        IF i = 0 THEN <<>>
        ELSE DPut(f[i - 1], EdgeLabel(sorted[i].k),
                  [count |-> sorted[i].v.count, total_bytes |-> sorted[i].v.total_bytes,
                   top_codes |-> MostCommon(sorted[i].v.codes, TopEdgeCodes)])
  IN  f[Len(sorted)]
\* The returned dict (259 - 266).
BinderResult(b) ==
  [total_transactions |-> b.transactions, oneway |-> b.oneway_count,
   sync |-> b.sync_count, total_bytes_transferred |-> b.total_bytes,
   top_codes |-> MostCommon(b.code_usage, TopCodes),
   ipc_graph |-> IpcGraphOut(b.ipc_graph)]

\* ------------------------------------------- iteration order of a Python set
\* A set iterates in an order the language leaves open (for strings it changes
\* with the process's hash seed). seed picks the order: 0 ascending, otherwise
\* descending by rank.
SetOrder(S, rank, seed) ==
  LET n == Cardinality(S)
  IN  [i \in 1..n |->
         CHOOSE x \in S :
           Cardinality({y \in S : IF seed = 0 THEN rank[y] < rank[x] ELSE rank[y] > rank[x]})
             = i - 1]
\* The strings of the model in Python's (code point) order, for sorted() of strings
StrOrder == <<"", " ", " /data/a ", "/bin/sh", "/data/a", "/data/b", "10.0.0.1", "A", "B",
              "app", "sh">>
StrRank == [x \in {StrOrder[i] : i \in DOMAIN StrOrder} |->
              CHOOSE i \in DOMAIN StrOrder : StrOrder[i] = x]
\* sorted() of a sequence of strings
SortStrs(s) == StableSort(s, [i \in DOMAIN s |-> <<StrRank[s[i]], 0>>])
\* s.strip()
Strip(x) == CASE x = " " -> "" [] x = " /data/a " -> "/data/a" [] OTHER -> x

\* ------------------------------------------- compute_process_tree (272 - 314)
TreeInit == [pid_to_comm |-> <<>>, pid_to_ppid |-> <<>>]
\* The body of `for ev in events` (280 - 287).
TreeScanStep(tr, ev) ==
  [tr EXCEPT
     !.pid_to_comm =
       IF IsInt(ev.pid) /\ IsNonEmptyStr(ev.comm) THEN DPut(@, ev.pid.n, ev.comm.s) ELSE @,
     !.pid_to_ppid =
       IF IsInt(ev.pid) /\ IsInt(ev.ppid) THEN DPut(@, ev.pid.n, ev.ppid.n) ELSE @]
\* if ppid != pid: the pids that become children of their ppid
IsChildLink(pid, ppid) == ppid # pid
\* children (290 - 293): ppid -> the pids recorded under it, in pid_to_ppid's order
Children(pid_to_ppid) ==
  LET f[i \in 0..Len(pid_to_ppid)] ==
        IF i = 0 THEN <<>>
        ELSE LET pid == pid_to_ppid[i].k
                 ppid == pid_to_ppid[i].v
             IN  IF IsChildLink(pid, ppid)
                 THEN DPut(f[i - 1], ppid, Append(DGet(f[i - 1], ppid, <<>>), pid))
                 ELSE f[i - 1]
  IN  f[Len(pid_to_ppid)]
\* (mutant) the filter left out: every recorded pid starts a tree
IsRoot_EveryPid(ppid, all_pids) == TRUE
\* (mutant) a root is a pid whose ppid is 0
IsRoot_ZeroOnly(ppid, all_pids) == ppid = 0
\* ppid not in all_pids
IsRoot(ppid, all_pids) == ppid \notin all_pids
\* roots (296 - 297)
Roots(pid_to_ppid) ==
  LET all_pids == DKeys(pid_to_ppid)
      f[i \in 0..Len(pid_to_ppid)] ==
        IF i = 0 THEN <<>>
        ELSE IF IsRoot(pid_to_ppid[i].v, all_pids) THEN Append(f[i - 1], pid_to_ppid[i].k)
        ELSE f[i - 1]
  IN  f[Len(pid_to_ppid)]
SortInts(s) == StableSort(s, [i \in DOMAIN s |-> <<s[i], 0>>])
\* build_subtree (299 - 304)
RECURSIVE build_subtree(_, _, _)
build_subtree(pid, pid_to_comm, children) ==
  LET cs == SortInts(DGet(children, pid, <<>>))
  IN  [pid |-> pid, comm |-> DGet(pid_to_comm, pid, "?"),
       children |-> [i \in DOMAIN cs |-> build_subtree(cs[i], pid_to_comm, children)]]
\* The returned dict (306 - 314); seed orders the iteration of the set all_pids.
ProcessTree(tr, seed) ==
  LET children == Children(tr.pid_to_ppid)
      roots == SortInts(Roots(tr.pid_to_ppid))
      all_pids == DKeys(tr.pid_to_ppid)
      pids == SortInts(SetOrder(all_pids, [x \in all_pids |-> x], seed))
  IN  [roots |-> [i \in DOMAIN roots |-> build_subtree(roots[i], tr.pid_to_comm, children)],
       flat |-> [i \in DOMAIN pids |->
                   [pid |-> pids[i], comm |-> DGet(tr.pid_to_comm, pids[i], "?"),
                    ppid |-> DGet(tr.pid_to_ppid, pids[i], 0)]]]

\* ------------------------------------------- compute_resource_map (320 - 347)
ResourceKinds == {"openat", "connect", "execve"}
ResInit == [by_comm |-> <<>>, err |-> FALSE]
\* The body of `for ev in events` (329 - 338). ev.get("decoded", "").strip()
\* raises AttributeError when decoded is present and not a string.
ResScanStep(r, ev) ==
  IF ~IsSyscall(ev) THEN r
  ELSE IF ev.decoded.t \notin {"absent", "str"} THEN [r EXCEPT !.err = TRUE]
  ELSE LET decoded == IF ev.decoded.t = "absent" THEN "" ELSE Strip(ev.decoded.s)
           comm == IF ev.comm.t = "absent" THEN JStr("") ELSE ev.comm
       IN  IF decoded = "" \/ ~Truthy(comm) THEN r
           ELSE IF ev.event.t = "str" /\ ev.event.s \in ResourceKinds
           THEN LET old == DGet(r.by_comm, comm.s, <<>>)
                IN  [r EXCEPT
                       !.by_comm =
                         DPut(@, comm.s,
                              DPut(old, ev.event.s,
                                   DGet(old, ev.event.s, {}) \cup {decoded}))]
           ELSE r
\* (mutant) list(v): the set's elements in iteration order
SortedSet_IterationOrder(v, seed) == SetOrder(v, StrRank, seed)
\* sorted(v) for a set v of strings
SortedSet(v, seed) == SortStrs(SetOrder(v, StrRank, seed))
\* result (341 - 347): comms sorted, each kind's set as a sorted list
ResourceMap(r, seed) ==
  LET comms == SortStrs([i \in DOMAIN r.by_comm |-> r.by_comm[i].k])
  IN  [i \in DOMAIN comms |->
         LET resources == DGet(r.by_comm, comms[i], <<>>)
         IN  [k |-> comms[i],
              v |-> [j \in DOMAIN resources |->
                       [k |-> resources[j].k, v |-> SortedSet(resources[j].v, seed)]]]]

\* ------------------------------------------- compute_event_rate (147 - 165)
\* session.json: absent (None), or its started_at / stopped_at, each the second
\* _parse_iso_datetime reads from it or None (missing, not a string, unparsable).
NoSessionMeta == [present |-> FALSE, started_at |-> None, stopped_at |-> None]
SessionMeta(start, stop) == [present |-> TRUE, started_at |-> start, stopped_at |-> stop]
NoEventRate == [some |-> FALSE, duration_s |-> 0, event_rate_eps |-> [num |-> 0, den |-> 1]]
compute_event_rate(meta, total_events) ==
  IF ~meta.present THEN NoEventRate
  ELSE IF ~meta.started_at.some \/ ~meta.stopped_at.some THEN NoEventRate
  ELSE LET duration == meta.stopped_at.v - meta.started_at.v
       IN  IF duration <= 0 THEN NoEventRate
           ELSE [some |-> TRUE, duration_s |-> duration,
                 event_rate_eps |-> [num |-> total_events, den |-> duration]]

\* ---------------------------------------------- the Summary (547 - 584)
TopProcesses == 10
RatesInit == [error_rates |-> <<>>, latency_overall |-> NoLatency, latency_by_syscall |-> <<>>]
TimeInit == [has_ts_ns |-> FALSE, rate_1s |-> RateUnavailable]
BinderResultInit == BinderResult(BinderInit)
TreeResultInit == [roots |-> <<>>, flat |-> <<>>]
BuildResult(evs, a, rt, tm, deep, binder, tree, resmap) ==
  [total_events |-> Len(evs),
   events_by_type |-> a.type_counter,
   events_by_name |-> a.event_counter,
   top_processes |-> MostCommon(a.proc_total, TopProcesses),
   process_profiles |->
     [i \in DOMAIN a.proc_total |->
        [k |-> a.proc_total[i].k,
         v |-> [total |-> a.proc_total[i].v,
                by_type |-> DGet(a.proc_by_type, a.proc_total[i].k, <<>>),
                by_event |-> DGet(a.proc_by_event, a.proc_total[i].k, <<>>)]]],
   syscalls |->
     [counts |-> a.syscall_counts, errors |-> a.syscall_errors,
      error_rates |-> rt.error_rates, latency_overall |-> rt.latency_overall,
      latency_by_syscall |-> rt.latency_by_syscall],
   timeline_by_pid |-> a.timeline_by_pid,
   pid_to_comm |-> a.pid_to_comm,
   time |-> tm,
   syscalls_latency |-> deep,
   binder |-> binder,
   process_tree |-> tree,
   resource_map |-> resmap,
   event_rate |-> NoEventRate]
NoResult ==
  BuildResult(<<>>, AggInit, RatesInit, TimeInit, NoDeep, BinderResultInit,
              TreeResultInit, <<>>)

\* ================================================================ the run
VARIABLES
  lines,            \* events.jsonl, line by line
  session_meta,     \* session.json
  mode,             \* the order the passes run in: "sequential" is the code's
  hash_seed,        \* the process's hash seed (the iteration order of its sets)
  run,              \* 1 in the first run of main(), 2 in the second
  prev_result,      \* the Summary the first run wrote
  pc,               \* where main() is
  idx,              \* the position of the loop pc names
  done_passes,      \* the analysis passes that have finished
  events,           \* load_events' list
  events_sorted,    \* sort_events_by_time's list
  agg,              \* the aggregation loop's counters
  rates,            \* error rates and latency summaries
  time_analytics,   \* window_rate's result
  deep,             \* syscalls_latency_deep
  bnd,              \* compute_binder_analytics' locals
  binder_analytics, \* its result
  tr,               \* compute_process_tree's locals
  process_tree,     \* its result
  res,              \* compute_resource_map's locals
  resource_map,     \* its result
  result,           \* the Summary
  arr, pct, pct_index, pct_value  \* percentile's argument and result

inputs == <<lines, session_meta, mode>>
pctvars == <<arr, pct, pct_index, pct_value>>
vars ==
  <<lines, session_meta, mode, hash_seed, run, prev_result, pc, idx, done_passes, events,
    events_sorted, agg, rates, time_analytics, deep, bnd, binder_analytics, tr,
    process_tree, res, resource_map, result, arr, pct, pct_index, pct_value>>

\* The six analysis passes, in the order compute_analytics runs them.
PassOrder == <<"aggregation", "rate", "deep", "binder", "tree", "resource">>
Passes == {PassOrder[i] : i \in DOMAIN PassOrder}
FirstStage(p) ==
  CASE p = "aggregation" -> "aggregate"
    [] p = "rate" -> "time"
    [] p = "deep" -> "deep"
    [] p = "binder" -> "binder_index"
    [] p = "tree" -> "tree_scan"
    [] p = "resource" -> "res_scan"
\* Where the run goes when pass p returns.
AfterPass(p) ==
  IF mode = "sequential"
  THEN LET i == CHOOSE j \in DOMAIN PassOrder : PassOrder[j] = p
       IN  IF i = Len(PassOrder) THEN "build" ELSE FirstStage(PassOrder[i + 1])
  ELSE IF done_passes \cup {p} = Passes THEN "build" ELSE "pick"
Finish(p) ==
  /\ pc' = AfterPass(p)
  /\ done_passes' = done_passes \cup {p}
  /\ idx' = 1

\* The locals of a run before it starts.
Fresh ==
  /\ pc = "load"
  /\ idx = 1
  /\ done_passes = {}
  /\ events = <<>>
  /\ events_sorted = <<>>
  /\ agg = AggInit
  /\ rates = RatesInit
  /\ time_analytics = TimeInit
  /\ deep = NoDeep
  /\ bnd = BinderInit
  /\ binder_analytics = BinderResultInit
  /\ tr = TreeInit
  /\ process_tree = TreeResultInit
  /\ res = ResInit
  /\ resource_map = <<>>
  /\ result = NoResult

\* load_events: one line of the file
ReadLine ==
  /\ pc = "load"
  /\ idx <= Len(lines)
  /\ events' = LoadLine(events, lines[idx])
  /\ idx' = idx + 1
  /\ UNCHANGED <<inputs, hash_seed, run, prev_result, pc, done_passes, events_sorted, agg,
                 rates, time_analytics, deep, bnd, binder_analytics, tr, process_tree,
                 res, resource_map, result, pctvars>>

\* load_events returns; compute_analytics sorts (355) and sets up its counters
SortEvents ==
  /\ pc = "load"
  /\ idx > Len(lines)
  /\ events_sorted' = sort_events_by_time(events)
  /\ pc' = IF mode = "sequential" THEN FirstStage(PassOrder[1]) ELSE "pick"
  /\ idx' = 1
  /\ UNCHANGED <<inputs, hash_seed, run, prev_result, done_passes, events, agg, rates,
                 time_analytics, deep, bnd, binder_analytics, tr, process_tree, res,
                 resource_map, result, pctvars>>

\* the aggregation loop (376 - 422): one event
Aggregate ==
  /\ pc = "aggregate"
  /\ idx <= Len(events_sorted)
  /\ agg' = AggStep(agg, events_sorted[idx])
  /\ idx' = idx + 1
  /\ UNCHANGED <<inputs, hash_seed, run, prev_result, pc, done_passes, events,
                 events_sorted, rates, time_analytics, deep, bnd, binder_analytics, tr,
                 process_tree, res, resource_map, result, pctvars>>

\* after the loop: error rates and latency summaries (424 - 452)
Rates ==
  /\ pc = "aggregate"
  /\ idx > Len(events_sorted)
  /\ rates' = [error_rates |-> syscall_error_rates(agg),
               latency_overall |-> latency_summary(agg),
               latency_by_syscall |-> latency_by_syscall(agg)]
  /\ Finish("aggregation")
  /\ UNCHANGED <<inputs, hash_seed, run, prev_result, events, events_sorted, agg,
                 time_analytics, deep, bnd, binder_analytics, tr, process_tree, res,
                 resource_map, result, pctvars>>

\* time_analytics (455 - 458)
TimeRate ==
  /\ pc = "time"
  /\ time_analytics' = TimeAnalytics(events_sorted)
  /\ Finish("rate")
  /\ UNCHANGED <<inputs, hash_seed, run, prev_result, events, events_sorted, agg, rates,
                 deep, bnd, binder_analytics, tr, process_tree, res, resource_map, result,
                 pctvars>>

\* The list the deep-dive works on: the aggregation loop's syscall_lat_events.
DeepDiveInput == agg.syscall_lat_events
\* syscalls_latency_deep (461 - 539)
DeepDive ==
  /\ pc = "deep"
  /\ deep' = LatencyDeepDive(DeepDiveInput)
  /\ Finish("deep")
  /\ UNCHANGED <<inputs, hash_seed, run, prev_result, events, events_sorted, agg, rates,
                 time_analytics, bnd, binder_analytics, tr, process_tree, res,
                 resource_map, result, pctvars>>

\* compute_binder_analytics, first loop (180 - 189): one event
BinderIndex ==
  /\ pc = "binder_index"
  /\ idx <= Len(events_sorted)
  /\ LET b == BinderIndexStep(bnd, events_sorted[idx])
     IN  /\ bnd' = b
         /\ pc' = IF b.err THEN "crashed" ELSE pc
  /\ idx' = idx + 1
  /\ UNCHANGED <<inputs, hash_seed, run, prev_result, done_passes, events, events_sorted,
                 agg, rates, time_analytics, deep, binder_analytics, tr, process_tree,
                 res, resource_map, result, pctvars>>

\* between the loops (191 - 197): the transaction counters start at zero
BinderBegin ==
  /\ pc = "binder_index"
  /\ idx > Len(events_sorted)
  /\ bnd' = [BinderInit EXCEPT !.alloc_by_id = bnd.alloc_by_id,
                               !.received_by_id = bnd.received_by_id]
  /\ pc' = "binder_tx"
  /\ idx' = 1
  /\ UNCHANGED <<inputs, hash_seed, run, prev_result, done_passes, events, events_sorted,
                 agg, rates, time_analytics, deep, binder_analytics, tr, process_tree,
                 res, resource_map, result, pctvars>>

\* second loop (199 - 248): one event
BinderTx ==
  /\ pc = "binder_tx"
  /\ idx <= Len(events_sorted)
  /\ LET b == BinderTxStep(bnd, events_sorted[idx])
     IN  /\ bnd' = b
         /\ pc' = IF b.err THEN "crashed" ELSE pc
  /\ idx' = idx + 1
  /\ UNCHANGED <<inputs, hash_seed, run, prev_result, done_passes, events, events_sorted,
                 agg, rates, time_analytics, deep, binder_analytics, tr, process_tree,
                 res, resource_map, result, pctvars>>

\* after the loops (250 - 266): the graph is serialised and the dict returned
BinderOut ==
  /\ pc = "binder_tx"
  /\ idx > Len(events_sorted)
  /\ binder_analytics' = BinderResult(bnd)
  /\ Finish("binder")
  /\ UNCHANGED <<inputs, hash_seed, run, prev_result, events, events_sorted, agg, rates,
                 time_analytics, deep, bnd, tr, process_tree, res, resource_map, result,
                 pctvars>>

\* compute_process_tree, the scan (280 - 287): one event
TreeScan ==
  /\ pc = "tree_scan"
  /\ idx <= Len(events_sorted)
  /\ tr' = TreeScanStep(tr, events_sorted[idx])
  /\ idx' = idx + 1
  /\ UNCHANGED <<inputs, hash_seed, run, prev_result, pc, done_passes, events,
                 events_sorted, agg, rates, time_analytics, deep, bnd, binder_analytics,
                 process_tree, res, resource_map, result, pctvars>>

\* (mutant) the tree's pid_to_comm is the dict of the same name that the
\* aggregation loop of compute_analytics fills
TreeDicts_SharedComm == [tr EXCEPT !.pid_to_comm = agg.pid_to_comm]
\* The two dicts compute_process_tree declares for itself (277 - 278) and fills
TreeDicts == tr
\* children, roots, the nested tree and the flat list (289 - 314)
TreeBuild ==
  /\ pc = "tree_scan"
  /\ idx > Len(events_sorted)
  /\ process_tree' = ProcessTree(TreeDicts, hash_seed)
  /\ Finish("tree")
  /\ UNCHANGED <<inputs, hash_seed, run, prev_result, events, events_sorted, agg, rates,
                 time_analytics, deep, bnd, binder_analytics, tr, res, resource_map,
                 result, pctvars>>

\* compute_resource_map, the scan (329 - 338): one event
ResScan ==
  /\ pc = "res_scan"
  /\ idx <= Len(events_sorted)
  /\ LET r == ResScanStep(res, events_sorted[idx])
     IN  /\ res' = r
         /\ pc' = IF r.err THEN "crashed" ELSE pc
  /\ idx' = idx + 1
  /\ UNCHANGED <<inputs, hash_seed, run, prev_result, done_passes, events, events_sorted,
                 agg, rates, time_analytics, deep, bnd, binder_analytics, tr,
                 process_tree, resource_map, result, pctvars>>

\* the sets become sorted lists (340 - 347)
ResOut ==
  /\ pc = "res_scan"
  /\ idx > Len(events_sorted)
  /\ resource_map' = ResourceMap(res, hash_seed)
  /\ Finish("resource")
  /\ UNCHANGED <<inputs, hash_seed, run, prev_result, events, events_sorted, agg, rates,
                 time_analytics, deep, bnd, binder_analytics, tr, process_tree, res,
                 result, pctvars>>

\* compute_analytics builds and returns the Summary (547 - 584)
Build ==
  /\ pc = "build"
  /\ result' = BuildResult(events_sorted, agg, rates, time_analytics, deep,
                           binder_analytics, process_tree, resource_map)
  /\ pc' = "event_rate"
  /\ UNCHANGED <<inputs, hash_seed, run, prev_result, idx, done_passes, events,
                 events_sorted, agg, rates, time_analytics, deep, bnd, binder_analytics,
                 tr, process_tree, res, resource_map, pctvars>>

\* main (811 - 817): the event rate is attached and index.json written
EventRate ==
  /\ pc = "event_rate"
  /\ result' = [result EXCEPT
                  !.event_rate = compute_event_rate(session_meta, result.total_events)]
  /\ pc' = "done"
  /\ UNCHANGED <<inputs, hash_seed, run, prev_result, idx, done_passes, events,
                 events_sorted, agg, rates, time_analytics, deep, bnd, binder_analytics,
                 tr, process_tree, res, resource_map, pctvars>>

\* The hash seeds a process may start with.
HashSeeds == {0, 1}
\* main() is run again on the same session directory, in a new process
Rerun ==
  /\ pc = "done"
  /\ run = 1
  /\ run' = 2
  /\ prev_result' = result
  /\ hash_seed' \in HashSeeds
  /\ pc' = "load"
  /\ idx' = 1
  /\ done_passes' = {}
  /\ events' = <<>>
  /\ events_sorted' = <<>>
  /\ agg' = AggInit
  /\ rates' = RatesInit
  /\ time_analytics' = TimeInit
  /\ deep' = NoDeep
  /\ bnd' = BinderInit
  /\ binder_analytics' = BinderResultInit
  /\ tr' = TreeInit
  /\ process_tree' = TreeResultInit
  /\ res' = ResInit
  /\ resource_map' = <<>>
  /\ result' = NoResult
  /\ UNCHANGED <<inputs, pctvars>>

\* The passes the scheduler may start now: any pass not yet run; with mode
\* "deep_after_aggregation" the deep-dive waits for the aggregation.
MayStart(p) ==
  /\ p \notin done_passes
  /\ (mode = "deep_after_aggregation" /\ p = "deep") => "aggregation" \in done_passes
\* The passes as independent tasks: the next one to run is picked freely
Pick ==
  /\ pc = "pick"
  /\ \E p \in Passes :
       /\ MayStart(p)
       /\ pc' = FirstStage(p)
  /\ idx' = 1
  /\ UNCHANGED <<inputs, hash_seed, run, prev_result, done_passes, events, events_sorted,
                 agg, rates, time_analytics, deep, bnd, binder_analytics, tr,
                 process_tree, res, resource_map, result, pctvars>>

\* percentile(sorted_vals, p) is called (139 - 144)
ApplyPercentile ==
  /\ pc = "percentile"
  /\ pct_index' = PercentileIndex(Len(arr), pct)
  /\ pct_value' = percentile(arr, pct)
  /\ pc' = "percentile_done"
  /\ UNCHANGED <<inputs, hash_seed, run, prev_result, idx, done_passes, events,
                 events_sorted, agg, rates, time_analytics, deep, bnd, binder_analytics,
                 tr, process_tree, res, resource_map, result, arr, pct>>

Next ==
  \/ ReadLine
  \/ SortEvents
  \/ Aggregate
  \/ Rates
  \/ TimeRate
  \/ DeepDive
  \/ BinderIndex
  \/ BinderBegin
  \/ BinderTx
  \/ BinderOut
  \/ TreeScan
  \/ TreeBuild
  \/ ResScan
  \/ ResOut
  \/ Build
  \/ EventRate
NextTwice == Next \/ Rerun
NextAnyOrder == Next \/ Rerun \/ Pick
NextPercentile == ApplyPercentile

\* ------------------------------------------------------------ the inputs
\* Sequences over S of length at most n
BoundedSeq(S, n) == UNION {[1..k -> S] : k \in 0..n}
\* The start of main() on a file drawn from the lines in U.
InitRun(U, metas, modes, seeds) ==
  /\ lines \in BoundedSeq(U, MaxLines)
  /\ session_meta \in metas
  /\ mode \in modes
  /\ hash_seed \in seeds
  /\ run = 1
  /\ prev_result = NoResult
  /\ Fresh
  /\ arr = <<>>
  /\ pct = 0
  /\ pct_index = 0
  /\ pct_value = NaN

\* A syscall event {"type": "syscall", "event": name, "comm": comm, "pid": pid,
\* "data": {"ret": ret, "lat_us": lat}}; name, ret and lat are JSON values.
Syscall(name, comm, pid, ret, lat) ==
  [EvBase EXCEPT !.type = JStr("syscall"), !.event = name, !.comm = JStr(comm),
                 !.pid = JInt(pid), !.data = [EmptyData EXCEPT !.ret = ret, !.lat_us = lat]]

\* The lines of the syscall sessions.
SyscallLines ==
  { BlankLine, GarbageLine, ScalarLine, ArrayLine,
    \* the two openat calls of the documented scenario, here with timestamps
    ObjLine([Syscall(JStr("openat"), "app", 1, JInt(3), JInt(120)) EXCEPT !.ts_ns = JStr("7")]),
    ObjLine([Syscall(JStr("openat"), "app", 1, JInt(0 - 13), JInt(80)) EXCEPT !.ts_ns = JInt(0)]),
    \* a failed syscall whose event name is missing
    ObjLine(Syscall(Absent, "sh", 2, JInt(0 - 1), JInt(5))),
    \* ret a string, lat_us a JSON true
    ObjLine(Syscall(JStr("read"), "sh", 2, JStr("-5"), JTrue)),
    \* ret zero, lat_us a fraction, no comm
    ObjLine([Syscall(JStr("read"), "sh", 2, JInt(0), JHalf(2)) EXCEPT !.comm = Absent]),
    \* not a syscall: its ret and lat_us are not looked at
    ObjLine([Syscall(JStr("read"), "app", 1, JInt(0 - 1), JInt(9)) EXCEPT !.type = JStr("sched")]),
    \* "data": null
    ObjLine([Syscall(JStr("read"), "sh", 2, Absent, Absent) EXCEPT !.data = NonDictData]),
    \* "decoded": 5
    ObjLine([Syscall(JStr("openat"), "app", 1, JInt(3), Absent) EXCEPT !.decoded = JInt(5)]) }

Init == InitRun(SyscallLines, {NoSessionMeta}, {"sequential"}, {0})
Spec == Init /\ [][Next]_vars

\* A binder event {"type": "binder", "event": name, "comm": comm, "pid": pid,
\* "data": data}
BinderEv(name, comm, pid, data) ==
  [EvBase EXCEPT !.type = JStr("binder"), !.event = JStr(name), !.comm = JStr(comm),
                 !.pid = JInt(pid), !.data = data]
\* The lines of the binder sessions.
BinderLines ==
  { GarbageLine,
    \* the documented scenario: a transaction, its allocation, its delivery
    ObjLine(BinderEv("binder_transaction", "A", 10,
                     [EmptyData EXCEPT !.debug_id = JInt(7), !.to_pid = JInt(20),
                                       !.oneway = JInt(0)])),
    ObjLine(BinderEv("binder_transaction_alloc_buf", "A", 10,
                     [EmptyData EXCEPT !.debug_id = JInt(7), !.data_size = JInt(64)])),
    ObjLine(BinderEv("binder_transaction_received", "B", 20,
                     [EmptyData EXCEPT !.debug_id = JInt(7)])),
    \* a second allocation with the same debug_id, timestamped
    ObjLine([BinderEv("binder_transaction_alloc_buf", "A", 10,
                      [EmptyData EXCEPT !.debug_id = JInt(7), !.data_size = JInt(32)])
               EXCEPT !.ts_ns = JInt(5)]),
    \* a reply
    ObjLine(BinderEv("binder_transaction", "A", 10,
                     [EmptyData EXCEPT !.debug_id = JInt(7), !.to_pid = JInt(20),
                                       !.reply = JInt(1), !.code = JInt(3)])),
    \* a one-way transaction with another debug_id
    ObjLine(BinderEv("binder_transaction", "B", 20,
                     [EmptyData EXCEPT !.debug_id = JInt(8), !.to_pid = JInt(10),
                                       !.oneway = JInt(1), !.code = JInt(3)])),
    \* an allocation whose data_size is a string
    ObjLine(BinderEv("binder_transaction_alloc_buf", "B", 20,
                     [EmptyData EXCEPT !.debug_id = JInt(8), !.data_size = JStr("64")])) }
InitBinder == InitRun(BinderLines, {NoSessionMeta}, {"sequential"}, {0})
SpecBinder == InitBinder /\ [][Next]_vars

\* An event that carries only {"pid": pid, "ppid": ppid, "comm": comm}
ProcEv(pid, ppid, comm) == [EvBase EXCEPT !.pid = pid, !.ppid = ppid, !.comm = comm]
\* The lines of the process sessions.
ProcessLines ==
  { GarbageLine,
    ObjLine(ProcEv(JInt(1), JInt(0), JStr("init"))),
    ObjLine(ProcEv(JInt(2), JInt(1), JStr("A"))),
    \* its own parent
    ObjLine(ProcEv(JInt(3), JInt(3), JStr("B"))),
    \* with the pid 2 line above: 1's parent is 2 and 2's parent is 1
    ObjLine(ProcEv(JInt(1), JInt(2), JStr("init"))),
    \* a parent that is the pid of no event, unless the next line is there
    ObjLine(ProcEv(JInt(3), JInt(9), Absent)),
    ObjLine(ProcEv(JInt(9), Absent, JStr("sh"))),
    ObjLine(ProcEv(JInt(3), JInt(2), JStr("B"))),
    \* pid 2 again, under another name and another parent
    ObjLine(ProcEv(JInt(2), JInt(3), JStr("sh"))) }
InitProcess == InitRun(ProcessLines, {NoSessionMeta}, {"sequential"}, {0})
SpecProcess == InitProcess /\ [][Next]_vars

\* The sorted arrays percentile is called on: ascending, not empty
SortedArrays ==
  {a \in BoundedSeq(0..MaxVal, MaxArr) :
     a # <<>> /\ \A i \in DOMAIN a : \A j \in DOMAIN a : i <= j => a[i] <= a[j]}
\* A call of percentile(arr, pct / 100) on its own
InitPercentile ==
  /\ arr \in SortedArrays
  /\ pct \in 0..100
  /\ pct_index = 0
  /\ pct_value = NaN
  /\ pc = "percentile"
  /\ lines = <<>>
  /\ session_meta = NoSessionMeta
  /\ mode = "sequential"
  /\ hash_seed = 0
  /\ run = 1
  /\ prev_result = NoResult
  /\ idx = 1
  /\ done_passes = {}
  /\ events = <<>>
  /\ events_sorted = <<>>
  /\ agg = AggInit
  /\ rates = RatesInit
  /\ time_analytics = TimeInit
  /\ deep = NoDeep
  /\ bnd = BinderInit
  /\ binder_analytics = BinderResultInit
  /\ tr = TreeInit
  /\ process_tree = TreeResultInit
  /\ res = ResInit
  /\ resource_map = <<>>
  /\ result = NoResult
SpecPercentile == InitPercentile /\ [][NextPercentile]_vars

\* A syscall event with a decoded resource and a parent pid
ResourceEv(name, comm, pid, ppid, ret, lat, decoded) ==
  [Syscall(JStr(name), comm, pid, JInt(ret), JInt(lat))
     EXCEPT !.ppid = JInt(ppid), !.decoded = JStr(decoded)]
\* The lines of the sessions that are summarised twice: one process opening
\* two files, one of them also written with blanks around it, and a connect.
ResourceLines ==
  { ObjLine(ResourceEv("openat", "app", 1, 0, 3, 120, "/data/b")),
    ObjLine(ResourceEv("openat", "app", 1, 0, 0 - 13, 80, "/data/a")),
    ObjLine(ResourceEv("openat", "app", 1, 0, 3, 5, " /data/a ")),
    ObjLine([ResourceEv("connect", "sh", 2, 1, 0, 80, "10.0.0.1") EXCEPT !.ts_ns = JInt(0)]) }
\* session.json absent, or a session of four seconds
SessionMetas == {NoSessionMeta, SessionMeta(Some(0), Some(4))}
\* main() run twice on one session directory, each process with its own hash seed
InitTwice == InitRun(ResourceLines, SessionMetas, {"sequential"}, HashSeeds)
SpecTwice == InitTwice /\ [][NextTwice]_vars

\* The lines of the sessions whose passes are run in every order: two
\* syscalls with a latency, a parent pid and a decoded resource.
OrderLines ==
  { ObjLine(ResourceEv("openat", "app", 1, 0, 0 - 13, 120, "/data/a")),
    ObjLine(ResourceEv("connect", "sh", 2, 1, 0, 80, "10.0.0.1")) }
\* The orders the six passes are run in: any order, or any order in which the
\* deep-dive is not started before the aggregation has returned.
OrderModes == {"any_order", "deep_after_aggregation"}
\* main() run twice, the six passes each time in an order picked freely
InitOrders == InitRun(OrderLines, {NoSessionMeta}, OrderModes, {0})
SpecOrders == InitOrders /\ [][NextAnyOrder]_vars

\* An event that carries only {"pid": pid, "ts_ns": ts}
TimeEv(pid, ts) == [EvBase EXCEPT !.pid = JInt(pid), !.ts_ns = ts]
\* The lines of the timestamped sessions: the same instant as a number, as a
\* string and as a fraction that int() truncates to it, an earlier instant, and
\* events whose ts_ns is missing, null or not a number.
TimeLines ==
  { ObjLine(TimeEv(1, JInt(7))),
    ObjLine(TimeEv(2, JStr("7"))),
    ObjLine(TimeEv(3, JHalf(7))),
    ObjLine(TimeEv(4, JInt(0))),
    ObjLine(TimeEv(5, Absent)),
    ObjLine(TimeEv(6, JStr("abc"))),
    ObjLine(TimeEv(7, Null)),
    ObjLine(TimeEv(8, JStr("-5"))),
    \* one second later, and seven nanoseconds after that
    ObjLine(TimeEv(9, JInt(1000000000))),
    ObjLine(TimeEv(10, JInt(1000000007))) }
InitTime == InitRun(TimeLines, {NoSessionMeta}, {"sequential"}, {0})
SpecTime == InitTime /\ [][Next]_vars

\* A binder_transaction of A with debug_id 7 and the given to_pid
TxTo(to_pid) ==
  BinderEv("binder_transaction", "A", 10,
           [EmptyData EXCEPT !.debug_id = JInt(7), !.to_pid = to_pid])
\* The lines of the sessions with receivers: transactions to pid 20, to pid 0,
\* without to_pid and without debug_id, and deliveries by B, by C and by a
\* process whose comm is missing.
ReceiverLines ==
  { ObjLine(TxTo(JInt(20))),
    ObjLine(TxTo(JInt(0))),
    ObjLine(TxTo(Absent)),
    ObjLine([TxTo(JInt(20)) EXCEPT !.data.debug_id = Absent]),
    ObjLine(BinderEv("binder_transaction_received", "B", 20,
                     [EmptyData EXCEPT !.debug_id = JInt(7)])),
    ObjLine(BinderEv("binder_transaction_received", "C", 30,
                     [EmptyData EXCEPT !.debug_id = JInt(7)])),
    ObjLine([BinderEv("binder_transaction_received", "B", 20,
                      [EmptyData EXCEPT !.debug_id = JInt(7)]) EXCEPT !.comm = Absent]) }
InitReceiver == InitRun(ReceiverLines, {NoSessionMeta}, {"sequential"}, {0})
SpecReceiver == InitReceiver /\ [][Next]_vars

\* The extra lines a latency session may hold before and after its base lines.
MaxExtra == 2
\* The comms of the base lines: fifteen processes, as many as p95_by_comm_top keeps.
BaseComms ==
  <<"p01", "p02", "p03", "p04", "p05", "p06", "p07", "p08", "p09", "p10",
    "p11", "p12", "p13", "p14", "p15">>
\* The base lines: twenty successful reads, as many as top_slowest keeps; the
\* i-th takes 10 + i microseconds, so p01 .. p05 have two samples.
BaseLines ==
  [i \in 1..20 |->
     ObjLine(Syscall(JStr("read"), BaseComms[((i - 1) % 15) + 1], 10 + i, JInt(0),
                     JInt(10 + i)))]
\* The extra lines: the fastest call of a session, failing with errno 13; a
\* call that takes 20.5 microseconds and returns -2.5; a call whose latency is
\* Infinity; a nameless call that ties with a base line and returns the string
\* "-5"; and a failed call that carries no latency.
ExtraLines ==
  { ObjLine(Syscall(JStr("openat"), "sh", 2, JInt(0 - 13), JInt(5))),
    ObjLine(Syscall(JStr("read"), "sh", 2, JHalf(0 - 3), JHalf(20))),
    ObjLine(Syscall(JStr("read"), "zz", 3, JInt(0), JInf)),
    ObjLine(Syscall(Absent, "p01", 4, JStr("-5"), JInt(15))),
    ObjLine(Syscall(JStr("openat"), "app", 1, JInt(0 - 13), Absent)) }
\* main() on a file that holds the base lines between at most MaxExtra extra lines
InitDeep ==
  /\ \E before \in BoundedSeq(ExtraLines, MaxExtra) :
       \E after \in BoundedSeq(ExtraLines, MaxExtra - Len(before)) :
         lines = before \o BaseLines \o after
  /\ session_meta = NoSessionMeta
  /\ mode = "sequential"
  /\ hash_seed = 0
  /\ run = 1
  /\ prev_result = NoResult
  /\ Fresh
  /\ arr = <<>>
  /\ pct = 0
  /\ pct_index = 0
  /\ pct_value = NaN
SpecDeep == InitDeep /\ [][Next]_vars

\* The lines of the sessions whose process names hold the arrow of the edge
\* labels: a transaction of "A → B" that is never delivered, a one-way
\* transaction of A with its allocation and its delivery to "B → unknown", and
\* a transaction of A to pid 20.
LabelLines ==
  { ObjLine(BinderEv("binder_transaction", "A → B", 10,
                     [EmptyData EXCEPT !.debug_id = JInt(1)])),
    ObjLine(BinderEv("binder_transaction", "A", 11,
                     [EmptyData EXCEPT !.debug_id = JInt(7), !.to_pid = JInt(20),
                                       !.oneway = JInt(1)])),
    ObjLine(BinderEv("binder_transaction_alloc_buf", "A", 11,
                     [EmptyData EXCEPT !.debug_id = JInt(7), !.data_size = JInt(64)])),
    ObjLine(BinderEv("binder_transaction_received", "B → unknown", 20,
                     [EmptyData EXCEPT !.debug_id = JInt(7)])),
    ObjLine(BinderEv("binder_transaction", "A", 11,
                     [EmptyData EXCEPT !.debug_id = JInt(8), !.to_pid = JInt(20),
                                       !.code = JInt(3)])) }
InitLabels == InitRun(LabelLines, {NoSessionMeta}, {"sequential"}, {0})
SpecLabels == InitLabels /\ [][Next]_vars

\* ================================================================ claims
\* The Summary exists once main() has attached the event rate.
HasSummary == pc = "done"
\* load_events over a whole file
LoadAll(ls) ==
  LET f[i \in 0..Len(ls)] == IF i = 0 THEN <<>> ELSE LoadLine(f[i - 1], ls[i])
  IN  f[Len(ls)]
\* The lines that are a JSON object
ObjectLines(ls) == {i \in DOMAIN ls : ls[i].kind = "object"}
\* The reorderings of a file
Reorderings(ls) ==
  {[i \in DOMAIN ls |-> ls[q[i]]] : q \in Permutations(DOMAIN ls)}
NoTsAnywhere(ls) == \A i \in ObjectLines(ls) : ls[i].obj.ts_ns.t = "absent"

\* C1: total_events is the number of input lines that are a JSON object (blank
\* lines, unparsable lines, scalars and arrays are dropped), and when no event
\* carries ts_ns every reordering of the lines gives the same total_events.
C1_TotalEventsCountsObjects ==
  HasSummary =>
    /\ result.total_events = Cardinality(ObjectLines(lines))
    /\ NoTsAnywhere(lines) =>
         \A ls \in Reorderings(lines) :
           Len(sort_events_by_time(LoadAll(ls))) = result.total_events
\* Two events and a dropped line, none with ts_ns, summarised with total_events = 2.
C1_Witness ==
  /\ HasSummary
  /\ Len(lines) = 3
  /\ NoTsAnywhere(lines)
  /\ \E i \in DOMAIN lines : lines[i].kind \in {"garbage", "array", "scalar", "blank"}
  /\ result.total_events = 2

\* The syscall events of the ordered sequence with property P, counted.
SyscallIdx == {i \in DOMAIN events_sorted : IsSyscall(events_sorted[i])}
DataIsMap(ev) == ev.data.kind \in {"absent", "dict"}
ErrorsTotal == SumSeq([i \in DOMAIN result.syscalls.errors |-> result.syscalls.errors[i].v])

\* C5 as stated: a syscall event adds a latency sample iff lat_us is a JSON
\* number, and adds an error count iff ret is a negative integer.
C5_AsStated ==
  HasSummary =>
    /\ result.syscalls.latency_overall.n =
         Cardinality({i \in SyscallIdx : events_sorted[i].data.lat_us.t \in {"int", "float"}})
    /\ ErrorsTotal =
         Cardinality({i \in SyscallIdx :
                        /\ events_sorted[i].data.ret.t = "int"
                        /\ events_sorted[i].data.ret.n < 0})
\* C5, amended: a syscall event adds a latency sample iff its data is a map and
\* lat_us is a JSON number or a JSON boolean; it adds an error count iff its data
\* is a map, ret is a negative integer and its event name is a non-empty string.
C5_SamplesAndErrors ==
  HasSummary =>
    /\ result.syscalls.latency_overall.n =
         Cardinality({i \in SyscallIdx :
                        /\ DataIsMap(events_sorted[i])
                        /\ events_sorted[i].data.lat_us.t \in {"int", "float", "bool"}})
    /\ ErrorsTotal =
         Cardinality({i \in SyscallIdx :
                        /\ DataIsMap(events_sorted[i])
                        /\ events_sorted[i].data.ret.t = "int"
                        /\ events_sorted[i].data.ret.n < 0
                        /\ events_sorted[i].event.t = "str"
                        /\ events_sorted[i].event.s # ""})
\* A Summary over a failed syscall without a name, a failed named one, and a
\* boolean latency.
C5_Witness ==
  /\ HasSummary
  /\ ErrorsTotal = 1
  /\ result.syscalls.latency_overall.n = 3
  /\ \E i \in SyscallIdx :
       events_sorted[i].event.t = "absent" /\ events_sorted[i].data.ret.n < 0
  /\ \E i \in SyscallIdx : events_sorted[i].data.lat_us.t = "bool"

\* C6: for every syscall name, error_rates[name] is errors[name] / counts[name]
\* (0 for a count of 0), its denominator is never zero, and it lies in [0, 1].
C6_ErrorRates ==
  HasSummary =>
    LET sc == result.syscalls
    IN  /\ DKeys(sc.error_rates) = DKeys(sc.counts)
        /\ DKeys(sc.errors) \subseteq DKeys(sc.counts)
        /\ \A name \in DKeys(sc.counts) :
             LET cnt == DGet(sc.counts, name, 0)
                 err == DGet(sc.errors, name, 0)
                 rate == DGet(sc.error_rates, name, [num |-> 0, den |-> 0])
             IN  /\ rate.den > 0
                 /\ rate.num * cnt = err * rate.den
                 /\ cnt = 0 => rate.num = 0
                 /\ 0 <= rate.num /\ rate.num <= rate.den
                 /\ err <= cnt
\* The documented scenario: one failure in two openat calls, a rate of 1/2.
C6_Witness ==
  /\ HasSummary
  /\ DGet(result.syscalls.counts, "openat", 0) = 2
  /\ DGet(result.syscalls.errors, "openat", 0) = 1
  /\ DGet(result.syscalls.error_rates, "openat", [num |-> 0, den |-> 1]) = [num |-> 1, den |-> 2]

\* C7: whatever parsed objects the log holds, no field of the wrong type is
\* fatal: the run never ends in an uncaught exception.
C7_NeverFatal == pc # "crashed"

\* The non-reply transactions of the ordered sequence, and the replies.
IsTx(ev) == ev.event.t = "str" /\ ev.event.s = "binder_transaction"
ReplyFlag(ev) == ev.data.reply.t \in {"int", "bool"} /\ ev.data.reply.n = 1
TxIdx == {i \in DOMAIN events_sorted : IsTx(events_sorted[i]) /\ ~ReplyFlag(events_sorted[i])}
ReplyIdx == {i \in DOMAIN events_sorted : IsTx(events_sorted[i]) /\ ReplyFlag(events_sorted[i])}
\* The events named `name` that carry the debug_id of transaction i
SameId(i, name) ==
  {j \in DOMAIN events_sorted :
     /\ events_sorted[j].event = JStr(name)
     /\ events_sorted[j].data.debug_id.t \notin {"absent", "null"}
     /\ events_sorted[j].data.debug_id = events_sorted[i].data.debug_id}
LastOf(S) == CHOOSE j \in S : \A k \in S : k <= j
\* The bytes of transaction i: the data_size of the last allocation with its
\* debug_id, 0 without one
TxBytes(i) ==
  LET A == SameId(i, "binder_transaction_alloc_buf")
  IN  IF A = {} THEN 0 ELSE events_sorted[LastOf(A)].data.data_size.n
\* The edge of transaction i: its comm, and the comm of the last delivery with its
\* debug_id or else the name made from to_pid
TxLabel(i) ==
  LET R == SameId(i, "binder_transaction_received")
      ev == events_sorted[i]
  IN  ev.comm.s \o " → "
        \o (IF R # {} THEN events_sorted[LastOf(R)].comm.s
            ELSE IF ev.data.to_pid.t = "int" /\ ev.data.to_pid.n # 0
                 THEN "pid:" \o ToString(ev.data.to_pid.n)
                 ELSE "unknown")
SumOfSet(S, f) ==
  LET RECURSIVE go(_)
      go(T) == IF T = {} THEN 0 ELSE LET x == CHOOSE y \in T : TRUE IN f[x] + go(T \ {x})
  IN  go(S)
TxBytesOn(S) == SumOfSet(S, [i \in S |-> TxBytes(i)])
ScenarioEvents ==
  { BinderEv("binder_transaction", "A", 10,
             [EmptyData EXCEPT !.debug_id = JInt(7), !.to_pid = JInt(20), !.oneway = JInt(0)]),
    BinderEv("binder_transaction_alloc_buf", "A", 10,
             [EmptyData EXCEPT !.debug_id = JInt(7), !.data_size = JInt(64)]),
    BinderEv("binder_transaction_received", "B", 20, [EmptyData EXCEPT !.debug_id = JInt(7)]) }
IsScenario ==
  Len(events_sorted) = 3 /\ {events_sorted[i] : i \in DOMAIN events_sorted} = ScenarioEvents

\* C2: every reported edge's total_bytes is the sum, over the non-reply
\* transactions mapped to the edge, of the data_size of the last allocation with
\* the transaction's debug_id (0 without one); the documented scenario gives
\* exactly the edge "A → B" with count 1, total_bytes 64, and sync 1, oneway 0.
C2_EdgeBytes ==
  HasSummary =>
    LET g == result.binder.ipc_graph
    IN  /\ \A e \in DOMAIN g :
             g[e].v.total_bytes = TxBytesOn({i \in TxIdx : TxLabel(i) = g[e].k})
        /\ IsScenario =>
             /\ g = <<[k |-> "A → B", v |-> [count |-> 1, total_bytes |-> 64, top_codes |-> <<>>]]>>
             /\ result.binder.sync = 1
             /\ result.binder.oneway = 0
\* A transaction whose debug_id has two allocations (64 first, then 32 in the
\* ordered sequence) is reported with the later one's 32 bytes.
C2_Witness ==
  /\ HasSummary
  /\ \E i \in TxIdx :
       /\ Cardinality(SameId(i, "binder_transaction_alloc_buf")) = 2
       /\ events_sorted[LastOf(SameId(i, "binder_transaction_alloc_buf"))].data.data_size.n = 32
       /\ TxBytes(i) = 32
  /\ \E e \in DOMAIN result.binder.ipc_graph : result.binder.ipc_graph[e].v.total_bytes = 32

\* C10: a binder_transaction with data.reply == 1 adds no edge and is counted in
\* none of total_transactions, oneway, sync, top_codes, total_bytes_transferred;
\* it is counted in total_events, events_by_type, events_by_name and the profile
\* of its comm.
C10_ReplyCountedOnlyInAggregates ==
  HasSummary =>
    LET b == result.binder
        byComm(c) == {i \in DOMAIN events_sorted : events_sorted[i].comm = JStr(c)}
    IN  /\ b.total_transactions = Cardinality(TxIdx)
        /\ b.oneway + b.sync = Cardinality(TxIdx)
        /\ SumSeq([e \in DOMAIN b.ipc_graph |-> b.ipc_graph[e].v.count]) = Cardinality(TxIdx)
        /\ {b.ipc_graph[e].k : e \in DOMAIN b.ipc_graph} = {TxLabel(i) : i \in TxIdx}
        /\ SumSeq([c \in DOMAIN b.top_codes |-> b.top_codes[c].v]) =
             Cardinality({i \in TxIdx : events_sorted[i].data.code.t # "absent"})
        /\ b.total_bytes_transferred = TxBytesOn(TxIdx)
        /\ result.total_events = Len(events_sorted)
        /\ DGet(result.events_by_name, "binder_transaction", 0) =
             Cardinality(TxIdx) + Cardinality(ReplyIdx)
        /\ DGet(result.events_by_type, "binder", 0) =
             Cardinality({i \in DOMAIN events_sorted : events_sorted[i].type = JStr("binder")})
        /\ \A i \in ReplyIdx :
             LET prof == DGet(result.process_profiles, events_sorted[i].comm.s,
                              [total |-> 0, by_type |-> <<>>, by_event |-> <<>>])
                 mine == byComm(events_sorted[i].comm.s)
             IN  /\ prof.total = Cardinality(mine)
                 /\ DGet(prof.by_event, "binder_transaction", 0) =
                      Cardinality({j \in mine : IsTx(events_sorted[j])})
                 /\ DGet(prof.by_type, "binder", 0) =
                      Cardinality({j \in mine : events_sorted[j].type = JStr("binder")})
\* A reply with a code beside a transaction without one: one transaction, no
\* code counted, two events named binder_transaction.
C10_Witness ==
  /\ HasSummary
  /\ Cardinality(ReplyIdx) = 1
  /\ Cardinality(TxIdx) = 1
  /\ result.binder.total_transactions = 1
  /\ result.binder.top_codes = <<>>
  /\ Len(result.binder.ipc_graph) = 1
  /\ DGet(result.events_by_name, "binder_transaction", 0) = 2

\* The pids some event carries, and those with a recorded ppid
ObservedPids == {events_sorted[i].pid.n : i \in {j \in DOMAIN events_sorted : events_sorted[j].pid.t = "int"}}
PpidIdx(p) ==
  {i \in DOMAIN events_sorted :
     /\ events_sorted[i].pid = JInt(p)
     /\ events_sorted[i].ppid.t = "int"}
RecordedPids == {p \in ObservedPids : PpidIdx(p) # {}}
LastPpid(p) == events_sorted[LastOf(PpidIdx(p))].ppid.n
\* The nodes of a nested tree
RECURSIVE NodesOf(_)
NodesOf(node) ==
  {node} \cup UNION {NodesOf(node.children[i]) : i \in DOMAIN node.children}
TreeNodes == UNION {NodesOf(result.process_tree.roots[i]) : i \in DOMAIN result.process_tree.roots}
RootPids == {result.process_tree.roots[i].pid : i \in DOMAIN result.process_tree.roots}

\* C3: a pid whose last recorded ppid is the pid of no event is in the root
\* list, and no node of the nested tree is among its own children.
C3_RootsAndNoSelfChild ==
  HasSummary =>
    /\ \A p \in RecordedPids : LastPpid(p) \notin ObservedPids => p \in RootPids
    /\ \A node \in TreeNodes :
         \A i \in DOMAIN node.children : node.children[i].pid # node.pid
\* The session <<(1, 0, init), (2, 1, A), (3, 3, B)>>: pid 1's parent 0 is the
\* pid of no event and 1 is a root with the child 2; pid 3 is its own parent,
\* is recorded, and is no node of the nested tree.
C3_Witness ==
  /\ HasSummary
  /\ RecordedPids = {1, 2, 3}
  /\ LastPpid(1) = 0 /\ 0 \notin ObservedPids /\ RootPids = {1}
  /\ \E node \in TreeNodes : node.pid = 1 /\ Len(node.children) = 1
  /\ LastPpid(3) = 3
  /\ 3 \notin {node.pid : node \in TreeNodes}

\* C4: on a sorted array of length n, percentile uses index floor(p * (n - 1)),
\* gives arr[0] for p = 0 and arr[n-1] for p = 1, and never decreases as p grows.
C4_Percentile ==
  pc = "percentile_done" =>
    LET n == Len(arr)
    IN  /\ 100 * pct_index <= pct * (n - 1)
        /\ pct * (n - 1) < 100 * (pct_index + 1)
        /\ pct_value = Num(arr[pct_index + 1])
        /\ pct = 0 => pct_value = Num(arr[1])
        /\ pct = 100 => pct_value = Num(arr[n])
        /\ \A q \in 0..100 :
             /\ q <= pct => percentile(arr, q).v <= pct_value.v
             /\ q >= pct => percentile(arr, q).v >= pct_value.v
\* The median of <<0, 1, 2, 3>> is the element at index floor(0.5 * 3) = 1.
C4_Witness ==
  /\ pc = "percentile_done"
  /\ arr = <<0, 1, 2, 3>>
  /\ pct = 50
  /\ pct_index = 1
  /\ pct_value = Num(1)

\* Both runs of main() have written their Summary.
BothDone == run = 2 /\ pc = "done"
\* C8: a second run of the pipeline on the same lines and the same session
\* metadata writes the same Summary as the first, keys and list elements in
\* the same order, whatever the iteration order of the sets in either process.
C8_SameSummaryTwice == BothDone => result = prev_result
\* The second run, whose sets iterate in descending order, has written a
\* Summary with a two-element resource list and an event rate.
C8_Witness ==
  /\ BothDone
  /\ hash_seed = 1
  /\ result = prev_result
  /\ result.event_rate.some
  /\ \E i \in DOMAIN result.resource_map :
       \E j \in DOMAIN result.resource_map[i].v :
         result.resource_map[i].v[j].v = <<"/data/a", "/data/b">>

\* The stages of each pass, and the variables each pass writes
StagesOf(p) ==
  CASE p = "aggregation" -> {"aggregate"}
    [] p = "rate" -> {"time"}
    [] p = "deep" -> {"deep"}
    [] p = "binder" -> {"binder_index", "binder_tx"}
    [] p = "tree" -> {"tree_scan"}
    [] p = "resource" -> {"res_scan"}
Written(p) ==
  CASE p = "aggregation" -> <<agg, rates>>
    [] p = "rate" -> <<time_analytics>>
    [] p = "deep" -> <<deep>>
    [] p = "binder" -> <<bnd, binder_analytics>>
    [] p = "tree" -> <<tr, process_tree>>
    [] p = "resource" -> <<res, resource_map>>
\* A step of one run: not the start of the second.
SameRun == run' = run
\* Once sorted, the event sequence is never modified by a step of the run.
EventsUntouched == (SameRun /\ pc # "load") => events_sorted' = events_sorted
\* What a pass writes is changed only by a step of that pass.
OwnWrites == \A p \in Passes : (SameRun /\ pc \notin StagesOf(p)) => Written(p)' = Written(p)
\* The Summary is written only when the passes have all returned.
SummaryWrittenLast == (SameRun /\ result' # result) => done_passes = Passes

Sorted == pc \notin {"load", "percentile", "percentile_done"}
\* The events of the loaded list with a parseable ts_ns
HasTs(ev) == get_ts_ns(ev).some
\* The bijections of 1..n
Bijections(n) == {f \in [1..n -> 1..n] : \A i \in 1..n : \E j \in 1..n : f[j] = i}
Deliveries(i) == SameId(i, "binder_transaction_received")
LastDelivery(i) == events_sorted[LastOf(Deliveries(i))]
\* Transaction i has a delivery that names its process
NamedDelivery(i) == Deliveries(i) # {} /\ LastDelivery(i).comm.t = "str"
\* The labels of the reported edges, and the transactions reported on an edge
EdgeLabels == {result.binder.ipc_graph[e].k : e \in DOMAIN result.binder.ipc_graph}
EdgeCount(label) == DGet(result.binder.ipc_graph, label, [count |-> 0]).count
\* The receiver of transaction i as stated: the last delivery's comm, else
\* "pid:<to_pid>" for every to_pid that is there, else "unknown"
StatedReceiver(i) ==
  LET to_pid == events_sorted[i].data.to_pid
  IN  IF NamedDelivery(i) THEN LastDelivery(i).comm.s
      ELSE IF to_pid.t = "int" THEN "pid:" \o ToString(to_pid.n)
      ELSE "unknown"
\* The receiver of transaction i: the last delivery's comm, else "pid:<to_pid>"
\* for a to_pid that is there and not 0, else "unknown"
Receiver(i) ==
  LET to_pid == events_sorted[i].data.to_pid
  IN  IF NamedDelivery(i) THEN LastDelivery(i).comm.s
      ELSE IF to_pid.t = "int" /\ to_pid.n # 0 THEN "pid:" \o ToString(to_pid.n)
      ELSE "unknown"
\* C12 as stated: every non-reply transaction is reported on the edge to the
\* comm of its last delivery, to "pid:<to_pid>" when it has none and has a
\* to_pid (0 included), and to "unknown" only when to_pid is absent too.
C12_AsStated ==
  HasSummary =>
    \A i \in TxIdx :
      EdgeCount(events_sorted[i].comm.s \o " → " \o StatedReceiver(i)) =
        Cardinality({j \in TxIdx : StatedReceiver(j) = StatedReceiver(i)})
\* C12: every non-reply transaction is reported on the edge to the comm of the
\* last delivery with its debug_id when that delivery carries a comm; otherwise
\* to "pid:<to_pid>" when to_pid is there and not 0, and to "unknown" when
\* to_pid is absent or 0.
C12_ReceiverName ==
  HasSummary =>
    /\ EdgeLabels = {events_sorted[i].comm.s \o " → " \o Receiver(i) : i \in TxIdx}
    /\ \A i \in TxIdx :
         EdgeCount(events_sorted[i].comm.s \o " → " \o Receiver(i)) =
           Cardinality({j \in TxIdx : Receiver(j) = Receiver(i)})
\* Three transactions without a delivery, to pid 20, to pid 0 and without
\* to_pid: one on the edge to "pid:20", two on the edge to "unknown".
C12_Witness ==
  /\ HasSummary
  /\ Len(events_sorted) = 3
  /\ \A i \in DOMAIN events_sorted : i \in TxIdx /\ Deliveries(i) = {}
  /\ {events_sorted[i].data.to_pid : i \in TxIdx} = {JInt(20), JInt(0), Absent}
  /\ \A i \in TxIdx : events_sorted[i].data.debug_id = JInt(7)
  /\ EdgeCount("A → pid:20") = 1
  /\ EdgeCount("A → unknown") = 2
  /\ EdgeLabels = {"A → pid:20", "A → unknown"}

\* The events that record a comm for pid p, and the last comm recorded ("?"
\* without one)
CommIdx(p) ==
  {i \in DOMAIN events_sorted :
     events_sorted[i].pid = JInt(p) /\ IsNonEmptyStr(events_sorted[i].comm)}
LastComm(p) == IF CommIdx(p) = {} THEN "?" ELSE events_sorted[LastOf(CommIdx(p))].comm.s
\* The pids for which some event recorded a comm or a ppid
KnownPids == {p \in ObservedPids : CommIdx(p) # {} \/ PpidIdx(p) # {}}
Flat == result.process_tree.flat
\* The flat listing is ascending by pid, without repeats, and carries the last
\* recorded comm and ppid of each pid
FlatWellFormed ==
  /\ \A i \in DOMAIN Flat : \A j \in DOMAIN Flat : i < j => Flat[i].pid < Flat[j].pid
  /\ \A i \in DOMAIN Flat :
       /\ Flat[i].comm = LastComm(Flat[i].pid)
       /\ PpidIdx(Flat[i].pid) # {} => Flat[i].ppid = LastPpid(Flat[i].pid)
\* C13: the flat listing has exactly one entry for every known pid, that is
\* every pid for which some event recorded a comm or a ppid, ascending by pid,
\* with the last comm recorded for it ("?" if none) and its last ppid.
C13_FlatListsKnownPids ==
  HasSummary => ({Flat[i].pid : i \in DOMAIN Flat} = KnownPids /\ FlatWellFormed)

\* compute_process_tree has scanned the events: its two dicts are complete.
ScanDone == (pc = "tree_scan" /\ idx > Len(events_sorted)) \/ "tree" \in done_passes
\* build_subtree's recursion from pid, cut at depth `fuel`: the pids visited, in
\* the order of the calls, and whether every call returned above the cut.
RECURSIVE Walk(_, _, _)
Walk(pid, children, fuel) ==
  IF fuel = 0 THEN [ok |-> FALSE, pids |-> <<>>]
  ELSE LET cs == SortInts(DGet(children, pid, <<>>))
           sub[i \in 0..Len(cs)] ==
             IF i = 0 THEN [ok |-> TRUE, pids |-> <<pid>>]
             ELSE LET w == Walk(cs[i], children, fuel - 1)
                  IN  [ok |-> sub[i - 1].ok /\ w.ok, pids |-> sub[i - 1].pids \o w.pids]
       IN  sub[Len(cs)]
\* The calls of build_subtree that `tree = [build_subtree(r) for r in
\* sorted(roots)]` makes, cut at a depth of one more than the pids recorded
TreeWalk ==
  LET children == Children(TreeDicts.pid_to_ppid)
      roots == SortInts(Roots(TreeDicts.pid_to_ppid))
      fuel == Len(TreeDicts.pid_to_ppid) + 1
      all[i \in 0..Len(roots)] ==
        IF i = 0 THEN [ok |-> TRUE, pids |-> <<>>]
        ELSE LET w == Walk(roots[i], children, fuel)
             IN  [ok |-> all[i - 1].ok /\ w.ok, pids |-> all[i - 1].pids \o w.pids]
  IN  all[Len(roots)]
\* The recorded pid -> ppid relation has a cycle of two pids or a self-loop
HasCycle ==
  \E i \in DOMAIN tr.pid_to_ppid :
    \/ tr.pid_to_ppid[i].v = tr.pid_to_ppid[i].k
    \/ DGet(tr.pid_to_ppid, tr.pid_to_ppid[i].v, 0 - 1) = tr.pid_to_ppid[i].k
TsIdx == {i \in DOMAIN events_sorted : HasTs(events_sorted[i])}
FirstTs == CHOOSE t \in {get_ts_ns(events_sorted[i]).v : i \in TsIdx} :
             \A i \in TsIdx : t <= get_ts_ns(events_sorted[i]).v
WindowOf(i) == (get_ts_ns(events_sorted[i]).v - FirstTs) \div WinNs
Windows == {WindowOf(i) : i \in TsIdx}
InWindow(w) == Cardinality({i \in TsIdx : WindowOf(i) = w})
\* C15: the rate analysis is unavailable exactly when fewer than two events
\* have a parseable ts_ns; otherwise a timestamped event falls in window
\* floor((ts_ns - min_ts_ns) / window_ns), total_windows is the number of
\* non-empty windows, their counts sum to the number of timestamped events, and
\* the peak is the window with the highest count, the earliest among equals.
C15_WindowRate ==
  HasSummary =>
    LET r == result.time.rate_1s
    IN  /\ r.available <=> Cardinality(TsIdx) >= 2
        /\ r.available =>
             /\ r.total_windows = Cardinality(Windows)
             /\ r.avg_rate.den = r.total_windows
             /\ r.avg_rate.num = Cardinality(TsIdx)
             /\ r.peak_bucket \in Windows
             /\ r.peak_count = InWindow(r.peak_bucket)
             /\ \A w \in Windows :
                  /\ InWindow(w) <= r.peak_count
                  /\ InWindow(w) = r.peak_count => r.peak_bucket <= w
\* An event at 0 and an event one second later: two windows of one event each,
\* and the first is reported as the peak.
C15_Witness ==
  /\ HasSummary
  /\ Cardinality(TsIdx) = 2
  /\ Windows = {0, 1}
  /\ result.time.rate_1s.available
  /\ result.time.rate_1s.total_windows = 2
  /\ result.time.rate_1s.peak_bucket = 0
  /\ result.time.rate_1s.peak_count = 1

\* ------------------------------------------------------------------ C16
\* The latency observations, in the order they are met: the positions of the
\* syscall events whose data is a map with a JSON number as lat_us.
LatIdx ==
  {i \in SyscallIdx : /\ events_sorted[i].data.kind = "dict"
                      /\ events_sorted[i].data.lat_us.t \in {"int", "float", "inf"}}
Slowest == result.syscalls_latency.top_slowest
\* What top_slowest shows of the observation at position i
ShownOf(i) ==
  [ts_ns |-> get_ts_ns(events_sorted[i]), comm |-> events_sorted[i].comm,
   pid |-> events_sorted[i].pid, event |-> events_sorted[i].event,
   ret |-> events_sorted[i].data.ret, lat_us |-> events_sorted[i].data.lat_us]
\* Twice the value of a lat_us (Infinity above every other)
LatValue(v) == Twice(v)
\* How often an entry is listed, and how often it was observed
TimesListed(e) == Cardinality({k \in DOMAIN Slowest : Slowest[k] = e})
TimesObserved(e) == Cardinality({i \in LatIdx : ShownOf(i) = e})
\* The observations in the order they are met
Observed ==
  [k \in 1..Cardinality(LatIdx) |->
     ShownOf(CHOOSE i \in LatIdx : Cardinality({j \in LatIdx : j <= i}) = k)]
\* The entries of s whose lat_us has the value v, in the order of s
WithLat(s, v) ==
  LET f[i \in 0..Len(s)] ==
        IF i = 0 THEN <<>>
        ELSE LET rest == f[i - 1]
             IN  IF LatValue(s[i].lat_us) = v THEN Append(rest, s[i]) ELSE rest
  IN  f[Len(s)]
\* a can be had from b by leaving entries out
RECURSIVE IsSubseq(_, _)
IsSubseq(a, b) ==
  IF a = <<>> THEN TRUE
  ELSE IF b = <<>> THEN FALSE
  ELSE IF a[1] = b[1] THEN IsSubseq(Tail(a), Tail(b))
  ELSE IsSubseq(a, Tail(b))
\* C16: top_slowest lists min(20, m) of the m latency observations, in
\* non-increasing order of lat_us; no omitted observation has a strictly larger
\* lat_us than a listed one; observations with equal lat_us keep the order in
\* which they were first met.
C16_TopSlowest ==
  HasSummary =>
    /\ Len(Slowest) = Min2(TopSlowest, Cardinality(LatIdx))
    /\ \A k \in DOMAIN Slowest : TimesListed(Slowest[k]) <= TimesObserved(Slowest[k])
    /\ \A k \in 1..(Len(Slowest) - 1) :
         LatValue(Slowest[k].lat_us) >= LatValue(Slowest[k + 1].lat_us)
    /\ \A i \in LatIdx :
         TimesListed(ShownOf(i)) < TimesObserved(ShownOf(i)) =>
           \A k \in DOMAIN Slowest :
             LatValue(ShownOf(i).lat_us) <= LatValue(Slowest[k].lat_us)
    /\ \A k \in DOMAIN Slowest :
         LET v == LatValue(Slowest[k].lat_us)
         IN  IsSubseq(WithLat(Slowest, v), WithLat(Observed, v))

\* ------------------------------------------------------------------ C17
ByComm == result.syscalls_latency.p95_by_comm_top
\* The usable latency samples of a process: its finite latency observations
UsableIdx(c) ==
  {i \in LatIdx : events_sorted[i].comm = JStr(c) /\ events_sorted[i].data.lat_us.t # "inf"}
\* Twice their values, in ascending order
SamplesOf(c) ==
  SortNums([k \in 1..Cardinality(UsableIdx(c)) |->
              LatValue(events_sorted[CHOOSE i \in UsableIdx(c) :
                                       Cardinality({j \in UsableIdx(c) : j <= i}) = k]
                         .data.lat_us)])
\* The entry shows v microseconds where the samples have the value twice_v / 2
Shows(v, twice_v) == v.some /\ 2 * v.v = twice_v
\* C17: p95_by_comm_top has at most 15 entries, ordered by p95 descending, an
\* entry without a p95 after every entry with one; p50, p95 and p99 are the
\* elements at index floor(p * (n - 1)) of the process's ascending-sorted
\* latencies and max_us is their maximum.
C17_P95ByComm ==
  HasSummary =>
    /\ Len(ByComm) <= TopP95
    /\ \A k \in DOMAIN ByComm : \A l \in DOMAIN ByComm :
         k < l =>
           /\ ByComm[l].p95_us.some => ByComm[k].p95_us.some
           /\ (ByComm[k].p95_us.some /\ ByComm[l].p95_us.some) =>
                ByComm[k].p95_us.v >= ByComm[l].p95_us.v
    /\ \A k \in DOMAIN ByComm :
         LET s == SamplesOf(ByComm[k].comm)
             n == Len(s)
         IN  IF n = 0 THEN ~ByComm[k].p95_us.some
             ELSE /\ Shows(ByComm[k].p50_us, s[PercentileIndex(n, 50) + 1])
                  /\ Shows(ByComm[k].p95_us, s[PercentileIndex(n, 95) + 1])
                  /\ Shows(ByComm[k].p99_us, s[PercentileIndex(n, 99) + 1])
                  /\ Shows(ByComm[k].max_us, s[n])

\* ------------------------------------------------------------------ C18
\* ret is a negative integer whose absolute value is e
FailsWith(i, e) ==
  events_sorted[i].data.ret.t = "int" /\ e > 0 /\ events_sorted[i].data.ret.n = 0 - e
ErrnoTop == result.syscalls_latency.errno_global_top
ErrnoByName == result.syscalls_latency.errno_by_syscall_top
\* The errnos a session can show: those listed and those of its failed calls
Errnos ==
  {ErrnoTop[k].k : k \in DOMAIN ErrnoTop}
    \cup UNION {{ErrnoByName[s].v[k].k : k \in DOMAIN ErrnoByName[s].v} : s \in DOMAIN ErrnoByName}
    \cup {0 - events_sorted[i].data.ret.n :
            i \in {j \in LatIdx : events_sorted[j].data.ret.t = "int"
                                  /\ events_sorted[j].data.ret.n < 0}}
\* The sessions drawn show fewer errnos than either list keeps, so the lists
\* hold every count.
ErrnoTotal == SumSeq([k \in DOMAIN ErrnoTop |-> ErrnoTop[k].v])
\* C18: a latency observation is tallied under errno e, globally and under its
\* syscall name, iff its ret is a negative integer with |ret| = e; a ret that is
\* absent, non-negative or not an integer is not tallied, so the global errno
\* counts sum to no more than syscalls.errors.
C18_ErrnoBreakdown ==
  HasSummary =>
    /\ \A e \in Errnos :
         /\ DGet(ErrnoTop, e, 0) = Cardinality({i \in LatIdx : FailsWith(i, e)})
         /\ \A i \in LatIdx :
              IsNonEmptyStr(events_sorted[i].event) =>
                DGet(DGet(ErrnoByName, events_sorted[i].event.s, <<>>), e, 0)
                  = Cardinality({j \in LatIdx : /\ events_sorted[j].event = events_sorted[i].event
                                                /\ FailsWith(j, e)})
    /\ ErrnoTotal <= ErrorsTotal

\* ------------------------------------------------------------------ C19
Edges == result.binder.ipc_graph
\* C19: total_transactions = oneway + sync = the sum of the reported edges'
\* counts, total_bytes_transferred = the sum of the reported edges' total_bytes,
\* and the edges are reported in non-increasing order of count.
C19_BinderConsistent ==
  HasSummary =>
    /\ result.binder.total_transactions = result.binder.oneway + result.binder.sync
    /\ result.binder.total_transactions = SumSeq([e \in DOMAIN Edges |-> Edges[e].v.count])
    /\ result.binder.total_bytes_transferred =
         SumSeq([e \in DOMAIN Edges |-> Edges[e].v.total_bytes])
    /\ \A e \in 1..(Len(Edges) - 1) : Edges[e].v.count >= Edges[e + 1].v.count

====
